---------------------------- MODULE Spec2Model ----------------------------
(***************************************************************************)
(* A model of the Inbound Go SDK client (package inboundgo): the client    *)
(* configuration, the request executor Inbound.request, the generic        *)
(* envelope decoder makeRequest, the query encoder buildQueryString and    *)
(* the API methods built on them.                                          *)
(*                                                                         *)
(* Go strings are TLA+ strings; a Go pointer is NilPtr or Ptr(v); a Go     *)
(* error is NoErr (nil) or its message.                                    *)
(***************************************************************************)
EXTENDS Integers, Sequences, FiniteSets, TLC

VARIABLES
    apiKey,      \* Inbound.apiKey
    baseURL,     \* Inbound.baseURL
    httpClient,  \* Inbound.httpClient: "default", "custom" or "nil"
    pc,          \* position of the caller: "idle", "inflight", "returned", "panicked"
    call,        \* the API method being executed and its arguments
    req,         \* the *http.Request handed to httpClient.Do and not yet answered
    wire,        \* the requests handed to httpClient.Do during the current call
    outcome,     \* what httpClient.Do (and reading the body) last produced
    stream,      \* resp.Body of the response makeRequest last handled
    mr,          \* what makeRequest last returned: [resp |-> envelope, err |-> Go error]
    ret,         \* what the API method returned: [resp |-> envelope, err |-> Go error]
    qsParams,    \* the argument of the last buildQueryString evaluation
    qsOut,       \* the result of the last buildQueryString evaluation
    fnIn,        \* a function of the package outside the client's calls, with its arguments
    fnOut,       \* the result of evaluating fnIn
    th           \* the goroutines that share the client: where each is and what it read

vars == <<apiKey, baseURL, httpClient, pc, call, req, wire, outcome, stream, mr, ret,
          qsParams, qsOut, fnIn, fnOut, th>>

clientVars == <<apiKey, baseURL, httpClient>>
callVars == <<pc, call, req, wire, outcome, stream, mr, ret>>
qsVars == <<qsParams, qsOut>>
fnVars == <<fnIn, fnOut>>
thVars == <<th>>

-----------------------------------------------------------------------------
(* Go values *)

NoErr == "<nil>"
NilPtr == [nil |-> TRUE]
Ptr(v) == [nil |-> FALSE, val |-> v]
IsNil(p) == p.nil


-----------------------------------------------------------------------------
(* Client construction *)

DefaultBaseURL == "https://inbound.new/api/v2"
DefaultTimeoutSeconds == 30

\* A mutant of NewClient: the first base URL is taken even when it is empty.
NewClientAnyBaseURL(key, baseURLArg) ==
    IF key = ""
    THEN [client |-> NilPtr, err |-> "API key is required"]
    ELSE [client |-> Ptr([apiKey |-> key,
                          baseURL |-> IF Len(baseURLArg) > 0
                                      THEN baseURLArg[1]
                                      ELSE "https://inbound.new/api/v2",
                          httpClient |-> "default",
                          timeout |-> 30]),
          err |-> NoErr]

\* NewClient(apiKey, baseURL...): baseURLArg is the variadic argument list.
NewClient(key, baseURLArg) ==
    IF key = ""
    THEN [client |-> NilPtr, err |-> "API key is required"]
    ELSE [client |-> Ptr([apiKey |-> key,
                          baseURL |-> IF Len(baseURLArg) > 0 /\ baseURLArg[1] # ""
                                      THEN baseURLArg[1]
                                      ELSE DefaultBaseURL,
                          httpClient |-> "default",
                          timeout |-> DefaultTimeoutSeconds]),
          err |-> NoErr]

-----------------------------------------------------------------------------
(* net/url and net/http, as far as the client depends on them *)

HexDigits == {"0","1","2","3","4","5","6","7","8","9",
              "a","b","c","d","e","f","A","B","C","D","E","F"}

CharAt(s, i) == SubSeq(s, i, i)

\* Index of the first occurrence of character c in s from position i on, or 0.
RECURSIVE IndexFrom(_, _, _)
IndexFrom(s, c, i) ==
    IF i > Len(s) THEN 0
    ELSE IF CharAt(s, i) = c THEN i
    ELSE IndexFrom(s, c, i + 1)

\* strings.Index(s, c) + 1 for a one-character c: the first occurrence, or 0.
IndexOf(s, c) == IndexFrom(s, c, 1)

\* A '%' that is not followed by two hex digits.
HasInvalidEscape(s) ==
    \E i \in 1..Len(s) :
        /\ CharAt(s, i) = "%"
        /\ ~ ( /\ i + 2 <= Len(s)
               /\ CharAt(s, i+1) \in HexDigits
               /\ CharAt(s, i+2) \in HexDigits )

\* url.Parse(rawURL) as used by http.NewRequestWithContext: the fragment is cut
\* at the first '#', the query at the first '?'; the query is kept raw, while
\* the rest and the fragment must unescape.
URLParseError(u) ==
    LET h == IndexOf(u, "#")
        noFrag == IF h = 0 THEN u ELSE SubSeq(u, 1, h-1)
        frag == IF h = 0 THEN "" ELSE SubSeq(u, h+1, Len(u))
        q == IndexOf(noFrag, "?")
        rest == IF q = 0 THEN noFrag ELSE SubSeq(noFrag, 1, q-1)
    IN  IF HasInvalidEscape(rest) \/ HasInvalidEscape(frag)
        THEN "parse \"" \o u \o "\": invalid URL escape"
        ELSE NoErr

\* http.NewRequestWithContext(ctx, method, url, body)
NewRequestError(ctx, method, u) ==
    IF ctx = "nil" THEN "net/http: nil Context"
    ELSE URLParseError(u)

\* http.StatusText
StatusText(code) ==
    CASE code = 200 -> "OK"
      [] code = 201 -> "Created"
      [] code = 204 -> "No Content"
      [] code = 400 -> "Bad Request"
      [] code = 401 -> "Unauthorized"
      [] code = 404 -> "Not Found"
      [] code = 500 -> "Internal Server Error"
      [] OTHER -> ""

\* http.Response.Status, e.g. "200 OK"
StatusLine(code) == ToString(code) \o " " \o StatusText(code)

\* The Op of the *url.Error http.Client.Do returns: "Get", "Post", ...
urlErrorOp(method) ==
    CASE method = "GET" -> "Get"
      [] method = "POST" -> "Post"
      [] method = "PUT" -> "Put"
      [] method = "PATCH" -> "Patch"
      [] method = "DELETE" -> "Delete"
      [] OTHER -> method

\* (*url.Error).Error()
URLErrorMessage(method, u, cause) ==
    urlErrorOp(method) \o " \"" \o u \o "\": " \o cause

-----------------------------------------------------------------------------
(* encoding/json on response bodies *)

\* The value found under a key of a JSON object.
Absent == [t |-> "absent", s |-> ""]
JNull == [t |-> "null", s |-> ""]
JNumber == [t |-> "number", s |-> ""]
JString(x) == [t |-> "string", s |-> x]

\* A response body: text that is no JSON at all, no text, or a JSON document.
\* For an object the values under the keys "error" and "id" are recorded.
Doc(kind) == [kind |-> kind, error |-> Absent, id |-> Absent]
Obj(e, i) == [kind |-> "object", error |-> e, id |-> i]

\* The target types T of makeRequest: `any`, a response struct with a field
\* ID string `json:"id"` (PostEmailsResponse, ...), and a response struct
\* without one (GetMailResponse, ...).
TargetTypes == {"any", "idStruct", "listStruct"}

\* json.Unmarshal(respBody, &errorResp), errorResp struct{ Error string `json:"error"` }
UnmarshalErrorResp(body) ==
    CASE body.kind \in {"malformed", "empty"} ->
            [Error |-> "", err |-> "invalid JSON"]
      [] body.kind = "null" ->
            [Error |-> "", err |-> NoErr]
      [] body.kind \in {"string", "number", "array"} ->
            [Error |-> "", err |-> "json: cannot unmarshal into Go value"]
      [] body.kind = "object" ->
            CASE body.error.t = "string" -> [Error |-> body.error.s, err |-> NoErr]
              [] body.error.t \in {"absent", "null"} -> [Error |-> "", err |-> NoErr]
              [] OTHER -> [Error |-> "", err |-> "json: cannot unmarshal into Go struct field"]

\* json.Unmarshal(respBody, &result), result of type T. The decoded value is
\* the document itself for `any` and the struct's fields for a struct.
UnmarshalInto(T, body) ==
    CASE body.kind \in {"malformed", "empty"} ->
            [val |-> Doc("null"), err |-> "invalid JSON"]
      [] T = "any" ->
            [val |-> body, err |-> NoErr]
      [] body.kind = "null" ->
            [val |-> [ID |-> ""], err |-> NoErr]
      [] body.kind \in {"string", "number", "array"} ->
            [val |-> [ID |-> ""], err |-> "json: cannot unmarshal into Go value"]
      [] T = "listStruct" ->
            [val |-> [ID |-> ""], err |-> NoErr]
      [] body.id.t = "string" ->
            [val |-> [ID |-> body.id.s], err |-> NoErr]
      [] body.id.t \in {"absent", "null"} ->
            [val |-> [ID |-> ""], err |-> NoErr]
      [] OTHER ->
            [val |-> [ID |-> ""], err |-> "json: cannot unmarshal into Go struct field"]

-----------------------------------------------------------------------------
(* The response envelope and makeRequest *)

\* ApiResponse[T]{Data: d, Error: e}
ApiResponse(d, e) == [Data |-> d, Error |-> e]

\* What c.request returns to makeRequest: (*http.Response, error).
NoResp == [StatusCode |-> 0, Status |-> "", readable |-> FALSE, Body |-> Doc("empty")]
RequestFailed(e) == [resp |-> NoResp, err |-> e]
Responded(code, readable, body) ==
    [resp |-> [StatusCode |-> code, Status |-> StatusLine(code),
               readable |-> readable, Body |-> body],
     err |-> NoErr]

\* makeRequest, lines 527-529: c.request returned an error.
requestErrorResult(e) ==
    [resp |-> ApiResponse(NilPtr, e), err |-> NoErr]

\* makeRequest, lines 532-535: io.ReadAll(resp.Body) returned an error.
readErrorResult ==
    [resp |-> ApiResponse(NilPtr, "Failed to read response body"), err |-> NoErr]

\* A mutant of the status test: only codes from 300 on are read, and 3xx
\* responses land in the error bucket.
isErrorStatusFrom300(code) == code >= 300

\* makeRequest, line 537: resp.StatusCode >= 400
isErrorStatus(code) == code >= 400

\* A mutant of the error bucket: the decoded error string is used even when
\* it is empty.
errorStatusResultAnyError(resp) ==
    LET errorResp == UnmarshalErrorResp(resp.Body)
    IN  IF errorResp.err = NoErr
        THEN [resp |-> ApiResponse(NilPtr, errorResp.Error), err |-> NoErr]
        ELSE [resp |-> ApiResponse(NilPtr,
                          "HTTP " \o ToString(resp.StatusCode) \o ": " \o resp.Status),
              err |-> NoErr]

\* makeRequest, lines 538-544: the API-level error bucket.
errorStatusResult(resp) ==
    LET errorResp == UnmarshalErrorResp(resp.Body)
    IN  IF errorResp.err = NoErr /\ errorResp.Error # ""
        THEN [resp |-> ApiResponse(NilPtr, errorResp.Error), err |-> NoErr]
        ELSE [resp |-> ApiResponse(NilPtr,
                          "HTTP " \o ToString(resp.StatusCode) \o ": " \o resp.Status),
              err |-> NoErr]

\* makeRequest, lines 547-552: the success bucket.
successResult(T, resp) ==
    LET result == UnmarshalInto(T, resp.Body)
    IN  IF result.err # NoErr
        THEN [resp |-> ApiResponse(NilPtr, "Failed to parse response"), err |-> NoErr]
        ELSE [resp |-> ApiResponse(Ptr(result.val), ""), err |-> NoErr]

\* resp.Body, an io.ReadCloser: readable tells whether its reads succeed up to
\* the end of the stream, eof whether the end has been read, closed whether
\* Close has been called.
NoStream == [exists |-> FALSE, readable |-> FALSE, eof |-> FALSE, closed |-> FALSE]
BodyStream(readable) == [exists |-> TRUE, readable |-> readable, eof |-> FALSE, closed |-> FALSE]

\* io.ReadAll(resp.Body): reads until the end of the stream or the first error.
ReadAll(body) == [body EXCEPT !.eof = body.readable]

\* resp.Body.Close()
Close(body) == [body EXCEPT !.closed = TRUE]

\* A mutant of the stream handling: Close is deferred only after io.ReadAll
\* has succeeded.
respBodyCloseAfterRead(r) ==
    IF r.err # NoErr THEN NoStream
    ELSE LET read == ReadAll(BodyStream(r.resp.readable))
         IN  IF read.eof THEN Close(read) ELSE read

\* makeRequest, lines 530-532: what has happened to resp.Body when makeRequest
\* returns; r is what c.request returned.
respBody(r) ==
    IF r.err # NoErr THEN NoStream
    ELSE Close(ReadAll(BodyStream(r.resp.readable)))

\* A mutant of makeRequest: a body with a non-empty "error" string goes to the
\* error bucket whatever the status code is.
makeRequestErrorBodyFirst(T, r) ==
    IF r.err # NoErr THEN requestErrorResult(r.err)
    ELSE IF ~r.resp.readable THEN readErrorResult
    ELSE IF isErrorStatus(r.resp.StatusCode) \/ UnmarshalErrorResp(r.resp.Body).Error # ""
    THEN errorStatusResult(r.resp)
    ELSE successResult(T, r.resp)

\* makeRequest[T], from the return of c.request on: r is (resp, err).
makeRequest(T, r) ==
    IF r.err # NoErr THEN requestErrorResult(r.err)
    ELSE IF ~r.resp.readable THEN readErrorResult
    ELSE IF isErrorStatus(r.resp.StatusCode) THEN errorStatusResult(r.resp)
    ELSE successResult(T, r.resp)

-----------------------------------------------------------------------------
(* strings, strconv and url.Values, as far as buildQueryString uses them *)

\* The printable ASCII characters in byte order (0x20..0x7E). The backquote
\* (0x60) cannot be written in a TLA+ string; a tab holds its place.
Ascii == " !\"#$%&'()*+,-./0123456789:;<=>?@ABCDEFGHIJKLMNOPQRSTUVWXYZ[\\]^_\tabcdefghijklmnopqrstuvwxyz{|}~"

Rank(c) == IndexOf(Ascii, c)

\* a < b in Go's string order (bytewise).
RECURSIVE StrLess(_, _)
StrLess(a, b) ==
    IF Len(b) = 0 THEN FALSE
    ELSE IF Len(a) = 0 THEN TRUE
    ELSE IF CharAt(a, 1) = CharAt(b, 1)
         THEN StrLess(SubSeq(a, 2, Len(a)), SubSeq(b, 2, Len(b)))
         ELSE Rank(CharAt(a, 1)) < Rank(CharAt(b, 1))

\* strings.Split(s, c) for a one-character separator c.
RECURSIVE Split(_, _)
Split(s, c) ==
    LET i == IndexOf(s, c)
    IN  IF i = 0 THEN <<s>>
        ELSE <<SubSeq(s, 1, i-1)>> \o Split(SubSeq(s, i+1, Len(s)), c)

\* slices.Contains(seq, x)
Contains(seq, x) == \E i \in 1..Len(seq) : seq[i] = x

\* strconv.FormatInt(n, 10)
FormatInt(n) == ToString(n)

\* strconv.FormatBool(b)
FormatBool(b) == IF b THEN "true" ELSE "false"

Unreserved == {"-", "_", ".", "~"}
Alnum(c) == c \in {"0","1","2","3","4","5","6","7","8","9",
                   "A","B","C","D","E","F","G","H","I","J","K","L","M",
                   "N","O","P","Q","R","S","T","U","V","W","X","Y","Z",
                   "a","b","c","d","e","f","g","h","i","j","k","l","m",
                   "n","o","p","q","r","s","t","u","v","w","x","y","z"}

HexOf(n) == CharAt("0123456789ABCDEF", n + 1)

\* url.QueryEscape on one character: the byte of a printable ASCII character is
\* its rank + 31.
EscapeChar(c) ==
    IF Alnum(c) \/ c \in Unreserved THEN c
    ELSE IF c = " " THEN "+"
    ELSE LET byte == Rank(c) + 31
         IN  "%" \o HexOf(byte \div 16) \o HexOf(byte % 16)

\* url.QueryEscape(s)
RECURSIVE QueryEscape(_)
QueryEscape(s) ==
    IF Len(s) = 0 THEN ""
    ELSE EscapeChar(CharAt(s, 1)) \o QueryEscape(SubSeq(s, 2, Len(s)))

\* url.Values{}: a map from key to the list of its values.
EmptyValues == [k \in {} |-> <<>>]

\* url.Values.Add(key, value)
ValuesAdd(values, key, val) ==
    [k \in DOMAIN values \cup {key} |->
        IF k = key
        THEN (IF key \in DOMAIN values THEN Append(values[key], val) ELSE <<val>>)
        ELSE values[k]]

\* The keys of a url.Values in increasing order (slices.Sort in Encode).
RECURSIVE SortedKeys(_)
SortedKeys(S) ==
    IF S = {} THEN <<>>
    ELSE LET m == CHOOSE x \in S : \A y \in S \ {x} : StrLess(x, y)
         IN  <<m>> \o SortedKeys(S \ {m})

\* key=v1&key=v2... for one key
RECURSIVE EncodeKey(_, _)
EncodeKey(key, vs) ==
    IF Len(vs) = 0 THEN ""
    ELSE QueryEscape(key) \o "=" \o QueryEscape(vs[1])
         \o (IF Len(vs) > 1 THEN "&" \o EncodeKey(key, Tail(vs)) ELSE "")

RECURSIVE EncodeKeys(_, _)
EncodeKeys(values, keys) ==
    IF Len(keys) = 0 THEN ""
    ELSE EncodeKey(keys[1], values[keys[1]])
         \o (IF Len(keys) > 1 THEN "&" \o EncodeKeys(values, Tail(keys)) ELSE "")

\* url.Values.Encode()
ValuesEncode(values) == EncodeKeys(values, SortedKeys(DOMAIN values))

-----------------------------------------------------------------------------
(* reflect values and buildQueryString *)

\* A Go value as reflect sees it. typ is the name of its type.
NilInterface == [kind |-> "nil"]
InvalidValue == [kind |-> "invalid", typ |-> "invalid"]
StringV(x) == [kind |-> "string", typ |-> "string", s |-> x]
IntV(n) == [kind |-> "int", typ |-> "int", i |-> n]
BoolV(x) == [kind |-> "bool", typ |-> "bool", b |-> x]
FloatV == [kind |-> "float64", typ |-> "float64"]
SliceV == [kind |-> "slice", typ |-> "[]string"]
NilPtrTo(t) == [kind |-> "ptr", typ |-> "*" \o t, isNil |-> TRUE, elem |-> InvalidValue]
PtrTo(v) == [kind |-> "ptr", typ |-> "*" \o v.typ, isNil |-> FALSE, elem |-> v]
StructV(t, fs) == [kind |-> "struct", typ |-> t, fields |-> fs]

\* One struct field: its Go name, the value of its json tag ("" when it has
\* none) and its value.
Field(name, tag, v) == [name |-> name, tag |-> tag, v |-> v]

\* reflect.Value.CanInterface on a field: the field is exported.
CanInterface(f) ==
    /\ Len(f.name) > 0
    /\ CharAt(f.name, 1) \in {"A","B","C","D","E","F","G","H","I","J","K","L","M",
                              "N","O","P","Q","R","S","T","U","V","W","X","Y","Z"}

\* reflect.Value.String(): the string itself for a string, "<T Value>" otherwise.
ReflectString(v) ==
    IF v.kind = "string" THEN v.s ELSE "<" \o v.typ \o " Value>"

\* A mutant of the string case: the omitempty marker is ignored.
stringCaseKeepingEmpty(values, key, omitempty, field) ==
    ValuesAdd(values, key, ReflectString(field))

\* buildQueryString, lines 603-608: case reflect.String (also entered by the
\* fallthrough of case reflect.Ptr with the pointed-to value).
stringCase(values, key, omitempty, field) ==
    LET val == ReflectString(field)
    IN  IF omitempty /\ val = "" THEN values ELSE ValuesAdd(values, key, val)

\* A mutant of the integer case: 0 is left out whatever the tag says.
intCaseOmittingZero(values, key, omitempty, field) ==
    LET val == field.i
    IN  IF val = 0 THEN values ELSE ValuesAdd(values, key, FormatInt(val))

\* buildQueryString, lines 609-614: case reflect.Int, ..., reflect.Int64
intCase(values, key, omitempty, field) ==
    LET val == field.i
    IN  IF omitempty /\ val = 0 THEN values ELSE ValuesAdd(values, key, FormatInt(val))

\* buildQueryString, lines 615-620: case reflect.Bool
boolCase(values, key, omitempty, field) ==
    LET val == field.b
    IN  IF omitempty /\ ~val THEN values ELSE ValuesAdd(values, key, FormatBool(val))

\* buildQueryString, lines 597-602: case reflect.Ptr
ptrCase(values, key, omitempty, field) ==
    IF field.isNil THEN values
    ELSE stringCase(values, key, omitempty, field.elem)

\* buildQueryString, lines 574-621: the loop body for one field.
fieldStep(values, f) ==
    IF ~CanInterface(f) THEN values
    ELSE IF f.tag = "" \/ f.tag = "-" THEN values
    ELSE LET tagParts == Split(f.tag, ",")
             key == tagParts[1]
             omitempty == Contains(Tail(tagParts), "omitempty")
         IN  CASE f.v.kind = "ptr" -> ptrCase(values, key, omitempty, f.v)
               [] f.v.kind = "string" -> stringCase(values, key, omitempty, f.v)
               [] f.v.kind = "int" -> intCase(values, key, omitempty, f.v)
               [] f.v.kind = "bool" -> boolCase(values, key, omitempty, f.v)
               [] OTHER -> values

\* buildQueryString, lines 573-622: the loop over the fields, in order.
RECURSIVE collectFields(_, _)
collectFields(values, fs) ==
    IF Len(fs) = 0 THEN values
    ELSE collectFields(fieldStep(values, fs[1]), Tail(fs))

\* A mutant of buildQueryString: the test len(values) == 0 is left out.
buildQueryStringBareSeparator(params) ==
    IF params.kind = "nil" THEN ""
    ELSE LET v == IF params.kind = "ptr" THEN params.elem ELSE params
         IN  IF v.kind # "struct" THEN ""
             ELSE "?" \o ValuesEncode(collectFields(EmptyValues, v.fields))

\* buildQueryString(params)
buildQueryString(params) ==
    IF params.kind = "nil" THEN ""
    ELSE LET v == IF params.kind = "ptr" THEN params.elem ELSE params
         IN  IF v.kind # "struct" THEN ""
             ELSE LET values == collectFields(EmptyValues, v.fields)
                  IN  IF DOMAIN values = {} THEN ""
                      ELSE "?" \o ValuesEncode(values)

-----------------------------------------------------------------------------
(* Request bodies and json.Marshal *)

\* A value of static type `any` inside a request struct.
AnyNil == [k |-> "nil"]
AnyString(x) == [k |-> "string", s |-> x]
AnyChan == [k |-> "chan"]              \* a value json.Marshal does not support
AnyWebhookConfig(u, t, r) == [k |-> "WebhookConfig", url |-> u, timeout |-> t, retryAttempts |-> r]
AnyEmailConfig(e) == [k |-> "EmailConfig", email |-> e]

\* The body argument of c.request: the nil interface, or a value.
NoBody == [present |-> FALSE]
Body(v) == [present |-> TRUE, val |-> v]

Quote(x) == "\"" \o x \o "\""
Marshalled(j) == [json |-> j, err |-> NoErr]
MarshalFailed(e) == [json |-> "", err |-> e]

\* json.Marshal of a value of static type `any`
MarshalAny(a) ==
    CASE a.k = "nil" -> Marshalled("null")
      [] a.k = "string" -> Marshalled(Quote(a.s))
      [] a.k = "WebhookConfig" ->
            Marshalled("{\"url\":" \o Quote(a.url) \o ",\"timeout\":" \o ToString(a.timeout)
                       \o ",\"retryAttempts\":" \o ToString(a.retryAttempts) \o "}")
      [] a.k = "EmailConfig" -> Marshalled("{\"email\":" \o Quote(a.email) \o "}")
      [] OTHER -> MarshalFailed("json: unsupported type: chan int")

\* `"key":value` for an omitempty field of type `any` or *string
OmitAny(key, a, j) == IF a.k = "nil" THEN "" ELSE "," \o Quote(key) \o ":" \o j
OmitPtr(key, p) == IF p.nil THEN "" ELSE "," \o Quote(key) \o ":" \o Quote(p.val)

\* json.Marshal of the request structs (the fields the model carries).
MarshalStruct(v) ==
    CASE v.type = "PostEmailsRequest" ->
            LET to == MarshalAny(v.To)
            IN  IF to.err # NoErr THEN to
                ELSE Marshalled("{\"from\":" \o Quote(v.From) \o ",\"to\":" \o to.json
                                \o ",\"subject\":" \o Quote(v.Subject)
                                \o OmitPtr("text", v.Text)
                                \o OmitPtr("scheduled_at", v.ScheduledAt) \o "}")
      [] v.type = "PostEmailReplyRequest" ->
            LET to == MarshalAny(v.To)
            IN  IF to.err # NoErr THEN to
                ELSE Marshalled("{\"from\":" \o Quote(v.From)
                                \o OmitAny("to", v.To, to.json)
                                \o OmitPtr("text", v.Text) \o "}")
      [] v.type = "PostScheduleEmailRequest" ->
            LET to == MarshalAny(v.To)
            IN  IF to.err # NoErr THEN to
                ELSE Marshalled("{\"from\":" \o Quote(v.From) \o ",\"to\":" \o to.json
                                \o ",\"subject\":" \o Quote(v.Subject)
                                \o OmitPtr("text", v.Text)
                                \o ",\"scheduled_at\":" \o Quote(v.ScheduledAt) \o "}")
      [] v.type = "PostDomainsRequest" ->
            Marshalled("{\"domain\":" \o Quote(v.Domain) \o "}")
      [] v.type = "PostEndpointsRequest" ->
            LET cfg == MarshalAny(v.Config)
            IN  IF cfg.err # NoErr THEN cfg
                ELSE Marshalled("{\"name\":" \o Quote(v.Name) \o ",\"type\":" \o Quote(v.Type)
                                \o ",\"config\":" \o cfg.json \o "}")
      [] v.type = "map[string]bool" ->
            Marshalled("{" \o Quote(v.key) \o ":" \o FormatBool(v.value) \o "}")

\* json.Marshal(body) for a body that is a pointer to a request struct or a map
MarshalJSON(p) == IF p.nil THEN Marshalled("null") ELSE MarshalStruct(p.val)

-----------------------------------------------------------------------------
(* Inbound.request *)

NoHeaders == [h \in {} |-> ""]
NoReq == [Method |-> "", URL |-> "", hasBody |-> FALSE, Body |-> "", Header |-> NoHeaders]

\* A mutant of the headers: per-call headers, when there are any, replace the
\* default ones.
requestHeadersCustomOnly(key, headers) ==
    LET defaults == [h \in {"Authorization", "Content-Type"} |->
                        IF h = "Authorization" THEN "Bearer " \o key ELSE "application/json"]
    IN  IF DOMAIN headers # {} THEN headers ELSE defaults

\* request, lines 512-519: the default headers, then the per-call headers.
requestHeaders(key, headers) ==
    LET defaults == [h \in {"Authorization", "Content-Type"} |->
                        IF h = "Authorization" THEN "Bearer " \o key ELSE "application/json"]
    IN  [h \in DOMAIN defaults \cup DOMAIN headers |->
            IF h \in DOMAIN headers THEN headers[h] ELSE defaults[h]]

\* Inbound.request up to the call of c.httpClient.Do: the request it built, or
\* the error it returns without sending anything.
request(key, base, ctx, method, endpoint, body, headers) ==
    LET url == base \o endpoint
        jsonBody == IF body.present THEN MarshalJSON(body.val) ELSE Marshalled("")
        newReqErr == NewRequestError(ctx, method, url)
    IN  IF jsonBody.err # NoErr
        THEN [req |-> NoReq, err |-> "failed to marshal request body: " \o jsonBody.err]
        ELSE IF newReqErr # NoErr
        THEN [req |-> NoReq, err |-> "failed to create request: " \o newReqErr]
        ELSE [req |-> [Method |-> method, URL |-> url, hasBody |-> body.present,
                       Body |-> jsonBody.json, Header |-> requestHeaders(key, headers)],
              err |-> NoErr]

-----------------------------------------------------------------------------
(* The API methods: each yields the arguments it passes to makeRequest[T], *)
(* or panics before reaching it.                                           *)

MakeRequestArgs(T, method, endpoint, body, headers) ==
    [panic |-> FALSE, T |-> T, method |-> method, endpoint |-> endpoint,
     body |-> body, headers |-> headers]
Panics ==
    [panic |-> TRUE, T |-> "any", method |-> "", endpoint |-> "",
     body |-> NoBody, headers |-> NoHeaders]

\* A mutant of the idempotency headers: the key is not tested for emptiness.
idempotencyHeadersAnyKey(options) ==
    IF ~options.nil
    THEN [h \in {"Idempotency-Key"} |-> options.val.IdempotencyKey]
    ELSE NoHeaders

\* headers := make(map[string]string)
\* if options != nil && options.IdempotencyKey != "" { headers["Idempotency-Key"] = ... }
idempotencyHeaders(options) ==
    IF ~options.nil /\ options.val.IdempotencyKey # ""
    THEN [h \in {"Idempotency-Key"} |-> options.val.IdempotencyKey]
    ELSE NoHeaders

\* MailService.List
MailList(params) ==
    MakeRequestArgs("listStruct", "GET", "/mail" \o buildQueryString(params), NoBody, NoHeaders)

\* MailService.Get
MailGet(id) ==
    MakeRequestArgs("idStruct", "GET", "/mail/" \o id, NoBody, NoHeaders)

\* MailService.MarkRead
MailMarkRead(id) ==
    MakeRequestArgs("any", "PATCH", "/mail/" \o id,
                    Body(Ptr([type |-> "map[string]bool", key |-> "isRead", value |-> TRUE])),
                    NoHeaders)

\* A mutant of Send: an empty ScheduledAt counts as unset.
EmailSendNonEmptySchedule(params, options) ==
    IF params.nil THEN Panics
    ELSE MakeRequestArgs("idStruct", "POST",
                         IF ~params.val.ScheduledAt.nil /\ params.val.ScheduledAt.val # ""
                         THEN "/emails/schedule" ELSE "/emails",
                         Body(params), idempotencyHeaders(options))

\* EmailService.Send
EmailSend(params, options) ==
    IF params.nil THEN Panics
    ELSE MakeRequestArgs("idStruct", "POST",
                         IF ~params.val.ScheduledAt.nil THEN "/emails/schedule" ELSE "/emails",
                         Body(params), idempotencyHeaders(options))

\* EmailService.Get
EmailGet(id) ==
    MakeRequestArgs("idStruct", "GET", "/emails/" \o id, NoBody, NoHeaders)

\* EmailService.Reply
EmailReply(id, params, options) ==
    MakeRequestArgs("idStruct", "POST", "/emails/" \o id \o "/reply",
                    Body(params), idempotencyHeaders(options))

\* EmailService.Schedule
EmailSchedule(params, options) ==
    MakeRequestArgs("idStruct", "POST", "/emails/schedule",
                    Body(params), idempotencyHeaders(options))

\* EmailService.Cancel
EmailCancel(id) ==
    MakeRequestArgs("idStruct", "DELETE", "/emails/schedule/" \o id, NoBody, NoHeaders)

\* DomainService.Create
DomainCreate(params) ==
    MakeRequestArgs("idStruct", "POST", "/domains", Body(params), NoHeaders)

\* DomainService.Get
DomainGet(id) ==
    MakeRequestArgs("idStruct", "GET", "/domains/" \o id, NoBody, NoHeaders)

\* DomainService.Verify
DomainVerify(id) ==
    MakeRequestArgs("any", "POST", "/domains/" \o id \o "/auth", NoBody, NoHeaders)

\* EndpointService.Create
EndpointCreate(params) ==
    MakeRequestArgs("idStruct", "POST", "/endpoints", Body(params), NoHeaders)

\* EndpointService.Delete
EndpointDelete(id) ==
    MakeRequestArgs("listStruct", "DELETE", "/endpoints/" \o id, NoBody, NoHeaders)

\* ThreadService.Get
ThreadGet(id) ==
    MakeRequestArgs("listStruct", "GET", "/threads/" \o id, NoBody, NoHeaders)

\* A mutant of QuickReply: the idempotency options are not passed on.
QuickReplyDroppingOptions(emailID, message, from, options) ==
    EmailReply(emailID,
               Ptr([type |-> "PostEmailReplyRequest", From |-> from, To |-> AnyNil,
                    Text |-> Ptr(message)]),
               NilPtr)

\* Inbound.QuickReply
QuickReply(emailID, message, from, options) ==
    EmailReply(emailID,
               Ptr([type |-> "PostEmailReplyRequest", From |-> from, To |-> AnyNil,
                    Text |-> Ptr(message)]),
               options)

\* Inbound.CreateForwarder
CreateForwarder(from, to) ==
    EndpointCreate(Ptr([type |-> "PostEndpointsRequest",
                        Name |-> "Forward " \o from \o " to " \o to,
                        Type |-> "email", Config |-> AnyEmailConfig(to)]))

\* Inbound.ScheduleReminder
ScheduleReminder(to, subject, when, from, options) ==
    EmailSchedule(Ptr([type |-> "PostScheduleEmailRequest", From |-> from,
                       To |-> AnyString(to), Subject |-> subject,
                       Text |-> Ptr("Reminder: " \o subject), ScheduledAt |-> when]),
                  options)

\* Inbound.SetupDomain, line 1065: c.Domain().Create(ctx, &PostDomainsRequest{Domain: domain})
SetupDomainCreate(domain) ==
    DomainCreate(Ptr([type |-> "PostDomainsRequest", Domain |-> domain]))

WebhookTimeout == 30000
WebhookRetryAttempts == 3

\* Inbound.SetupDomain, lines 1075-1083: c.Endpoint().Create(ctx, &PostEndpointsRequest{...})
SetupDomainEndpoint(domain, webhookURL) ==
    EndpointCreate(Ptr([type |-> "PostEndpointsRequest", Name |-> domain \o " Webhook",
                        Type |-> "webhook",
                        Config |-> AnyWebhookConfig(webhookURL.val, WebhookTimeout,
                                                    WebhookRetryAttempts)]))

-----------------------------------------------------------------------------
(* The inputs the model draws from *)

ApiKeys == {"key-a", "key-b"}

\* The base URL argument of NewClient: none, empty, a custom one, and one that
\* url.Parse rejects.
BaseURLArgs == {<< >>, <<"">>, <<"http://localhost:8080">>, <<"http://local%zzhost">>}

\* context.Context arguments: a live context, a nil one, a cancelled one.
Contexts == {"background", "nil", "canceled"}

\* Caller-supplied ids: a plain one, one with path and query characters, one
\* with a malformed percent escape.
Ids == {"em_1", "a/b?c#d", "%zz"}

Options == {NilPtr, Ptr([IdempotencyKey |-> ""]), Ptr([IdempotencyKey |-> "idem-1"])}

ToValues == {AnyString("user@example.com"), AnyChan}

SendParams ==
    {NilPtr} \cup
    {Ptr([type |-> "PostEmailsRequest", From |-> "me@example.com", To |-> t,
          Subject |-> "Hi", Text |-> Ptr("hello"), ScheduledAt |-> sa]) :
        t \in ToValues, sa \in {NilPtr, Ptr(""), Ptr("in 1 hour")}}

ReplyParams ==
    {NilPtr} \cup
    {Ptr([type |-> "PostEmailReplyRequest", From |-> "me@example.com", To |-> t,
          Text |-> Ptr("thanks")]) : t \in {AnyNil, AnyChan}}

ScheduleParams ==
    {Ptr([type |-> "PostScheduleEmailRequest", From |-> "me@example.com", To |-> t,
          Subject |-> "Hi", Text |-> NilPtr, ScheduledAt |-> "in 1 hour"]) : t \in ToValues}

WebhookURLs == {NilPtr, Ptr(""), Ptr("https://hook.example.com")}

GetMailRequest(limit, search, includeArchived) ==
    StructV("GetMailRequest",
            << Field("Limit", "limit,omitempty", limit),
               Field("Offset", "offset,omitempty", NilPtrTo("int")),
               Field("Search", "search,omitempty", StringV(search)),
               Field("Status", "status,omitempty", StringV("")),
               Field("Domain", "domain,omitempty", StringV("")),
               Field("TimeRange", "timeRange,omitempty", StringV("")),
               Field("IncludeArchived", "includeArchived,omitempty", includeArchived),
               Field("EmailAddress", "emailAddress,omitempty", StringV("")),
               Field("EmailID", "emailId,omitempty", StringV("")) >>)

ListParams ==
    {NilPtrTo("GetMailRequest"),
     PtrTo(GetMailRequest(NilPtrTo("int"), "", NilPtrTo("bool"))),
     PtrTo(GetMailRequest(NilPtrTo("int"), "invoice", NilPtrTo("bool")))}

\* Causes of a failed http.Client.Do
TransportCauses == {"dial tcp: connection refused", "context deadline exceeded"}

StatusCodes == {200, 399, 400, 404}

RespBodies ==
    {Doc("malformed"), Doc("empty"), Doc("null"), Doc("array"), Doc("string"),
     Obj(Absent, Absent),
     Obj(JString("Invalid API key"), Absent),
     Obj(JString(""), Absent),
     Obj(JNumber, Absent),
     Obj(Absent, JString("res_1")),
     Obj(Absent, JNumber),
     Obj(JString("Invalid API key"), JString("res_1"))}

\* What c.httpClient.Do(req) and io.ReadAll(resp.Body) can produce for a request.
DoResults(r, ctx) ==
    IF ctx = "canceled"
    THEN {RequestFailed(URLErrorMessage(r.Method, r.URL, "context canceled"))}
    ELSE {RequestFailed(URLErrorMessage(r.Method, r.URL, c)) : c \in TransportCauses}
         \cup {Responded(code, TRUE, b) : code \in StatusCodes, b \in RespBodies}
         \cup {Responded(code, FALSE, Doc("empty")) : code \in StatusCodes}

-----------------------------------------------------------------------------
(* The client as a state machine *)

NoCall == [op |-> "none", args |-> << >>, ctx |-> "background", T |-> "any", stage |-> 0,
           domainResult |-> ApiResponse(NilPtr, "")]
NoOutcome == [resp |-> NoResp, err |-> "none"]
NoRet == [resp |-> ApiResponse(NilPtr, ""), err |-> "none"]

\* The result slot of a function evaluation: not evaluated yet, or its result.
NotCalled == [called |-> FALSE, result |-> ""]
NoFn == [fn |-> "none"]
NoThreads == << >>
Returned(x) == [called |-> TRUE, result |-> x]

\* The state after NewClient(key, baseURL...) succeeded.
Init ==
    /\ \E key \in ApiKeys, b \in BaseURLArgs :
          LET c == NewClient(key, b)
          IN  /\ c.err = NoErr
              /\ apiKey = c.client.val.apiKey
              /\ baseURL = c.client.val.baseURL
              /\ httpClient = c.client.val.httpClient
    /\ pc = "idle"
    /\ call = NoCall
    /\ req = NoReq
    /\ wire = << >>
    /\ outcome = NoOutcome
    /\ stream = NoStream
    /\ mr = NoRet
    /\ ret = NoRet
    /\ qsParams = NilInterface
    /\ qsOut = NotCalled
    /\ fnIn = NoFn
    /\ fnOut = NotCalled
    /\ th = NoThreads

\* Inbound.WithHTTPClient(client)
WithHTTPClient ==
    /\ pc = "idle"
    /\ \E h \in {"custom", "nil"} : httpClient' = h
    /\ UNCHANGED <<apiKey, baseURL, callVars, qsVars, fnVars, thVars>>

\* makeRequest[T] entered with the arguments d of an API method: c.request
\* builds the request and hands it to c.httpClient.Do ("sent"), or fails
\* before that and makeRequest returns ("returned"); a nil c.httpClient makes
\* Do dereference nil ("panic").
EnterMakeRequest(d, ctx) ==
    LET r == request(apiKey, baseURL, ctx, d.method, d.endpoint, d.body, d.headers)
    IN  IF d.panic
        THEN [kind |-> "panic", req |-> NoReq, ret |-> NoRet]
        ELSE IF r.err # NoErr
        THEN [kind |-> "returned", req |-> NoReq,
              ret |-> makeRequest(d.T, RequestFailed(r.err))]
        ELSE IF httpClient = "nil"
        THEN [kind |-> "panic", req |-> NoReq, ret |-> NoRet]
        ELSE [kind |-> "sent", req |-> r.req, ret |-> NoRet]

\* A caller invokes API method op with arguments args; d is what the method
\* passes to makeRequest.
Invoke(op, args, ctx, d) ==
    LET e == EnterMakeRequest(d, ctx)
    IN  /\ pc = "idle"
        /\ call' = [op |-> op, args |-> args, ctx |-> ctx, T |-> d.T, stage |-> 1,
                    domainResult |-> ApiResponse(NilPtr, "")]
        /\ outcome' = NoOutcome
        /\ stream' = NoStream
        /\ pc' = CASE e.kind = "panic" -> "panicked"
                   [] e.kind = "returned" -> "returned"
                   [] e.kind = "sent" -> "inflight"
        /\ req' = e.req
        /\ mr' = e.ret
        /\ ret' = e.ret
        /\ wire' = IF e.kind = "sent" THEN <<e.req>> ELSE << >>
        /\ UNCHANGED <<clientVars, qsVars, fnVars, thVars>>

CallMailList ==
    \E ctx \in Contexts, params \in ListParams :
        Invoke("Mail.List", [params |-> params], ctx, MailList(params))

CallMailGet ==
    \E ctx \in Contexts, id \in Ids :
        Invoke("Mail.Get", [id |-> id], ctx, MailGet(id))

CallMailMarkRead ==
    \E ctx \in Contexts, id \in Ids :
        Invoke("Mail.MarkRead", [id |-> id], ctx, MailMarkRead(id))

CallEmailSend ==
    \E ctx \in Contexts, params \in SendParams, options \in Options :
        Invoke("Email.Send", [params |-> params, options |-> options], ctx,
               EmailSend(params, options))

CallEmailGet ==
    \E ctx \in Contexts, id \in Ids :
        Invoke("Email.Get", [id |-> id], ctx, EmailGet(id))

CallEmailReply ==
    \E ctx \in Contexts, id \in Ids, params \in ReplyParams, options \in Options :
        Invoke("Email.Reply", [id |-> id, params |-> params, options |-> options], ctx,
               EmailReply(id, params, options))

CallEmailSchedule ==
    \E ctx \in Contexts, params \in ScheduleParams, options \in Options :
        Invoke("Email.Schedule", [params |-> params, options |-> options], ctx,
               EmailSchedule(params, options))

CallEmailCancel ==
    \E ctx \in Contexts, id \in Ids :
        Invoke("Email.Cancel", [id |-> id], ctx, EmailCancel(id))

CallDomainGet ==
    \E ctx \in Contexts, id \in Ids :
        Invoke("Domain.Get", [id |-> id], ctx, DomainGet(id))

CallDomainVerify ==
    \E ctx \in Contexts, id \in Ids :
        Invoke("Domain.Verify", [id |-> id], ctx, DomainVerify(id))

CallEndpointDelete ==
    \E ctx \in Contexts, id \in Ids :
        Invoke("Endpoint.Delete", [id |-> id], ctx, EndpointDelete(id))

CallThreadGet ==
    \E ctx \in Contexts, id \in Ids :
        Invoke("Thread.Get", [id |-> id], ctx, ThreadGet(id))

CallQuickReply ==
    \E ctx \in Contexts, id \in Ids, options \in Options :
        Invoke("QuickReply",
               [id |-> id, message |-> "thanks", from |-> "me@example.com",
                options |-> options],
               ctx, QuickReply(id, "thanks", "me@example.com", options))

CallCreateForwarder ==
    \E ctx \in Contexts :
        Invoke("CreateForwarder", [from |-> "info@example.com", to |-> "ops@example.com"],
               ctx, CreateForwarder("info@example.com", "ops@example.com"))

CallScheduleReminder ==
    \E ctx \in Contexts, options \in Options :
        Invoke("ScheduleReminder",
               [to |-> "user@example.com", subject |-> "Standup", when |-> "in 1 hour",
                from |-> "me@example.com", options |-> options],
               ctx,
               ScheduleReminder("user@example.com", "Standup", "in 1 hour",
                                "me@example.com", options))

\* Inbound.SetupDomain up to the first c.httpClient.Do
CallSetupDomain ==
    \E ctx \in Contexts, webhookURL \in WebhookURLs :
        Invoke("SetupDomain", [domain |-> "example.com", webhookURL |-> webhookURL], ctx,
               SetupDomainCreate("example.com"))

\* A mutant of Return: after a transport failure the request is sent once more.
ReturnRetrying ==
    /\ pc = "inflight"
    /\ call.op # "SetupDomain"
    /\ \E o \in DoResults(req, call.ctx) :
          /\ outcome' = o
          /\ stream' = respBody(o)
          /\ mr' = makeRequest(call.T, o)
          /\ ret' = makeRequest(call.T, o)
          /\ IF o.err # NoErr /\ Len(wire) < 2
             THEN pc' = "inflight" /\ req' = req /\ wire' = Append(wire, req)
             ELSE pc' = "returned" /\ req' = NoReq /\ wire' = wire
    /\ UNCHANGED <<clientVars, call, qsVars, fnVars, thVars>>

\* c.httpClient.Do answers the request in flight and makeRequest turns the
\* answer into the envelope the API method returns.
Return ==
    /\ pc = "inflight"
    /\ call.op # "SetupDomain"
    /\ \E o \in DoResults(req, call.ctx) :
          /\ outcome' = o
          /\ stream' = respBody(o)
          /\ mr' = makeRequest(call.T, o)
          /\ ret' = makeRequest(call.T, o)
    /\ pc' = "returned"
    /\ req' = NoReq
    /\ UNCHANGED <<clientVars, call, wire, qsVars, fnVars, thVars>>

\* A mutant of SetupDomain: the endpoint is created for every non-nil webhook
\* URL, the empty one included.
SetupDomainCreatedAnyURL ==
    /\ pc = "inflight"
    /\ call.op = "SetupDomain"
    /\ call.stage = 1
    /\ \E o \in DoResults(req, call.ctx) :
          LET domainResult == makeRequest("idStruct", o).resp
              webhookURL == call.args.webhookURL
              e == EnterMakeRequest(SetupDomainEndpoint(call.args.domain, webhookURL),
                                    call.ctx)
          IN  IF domainResult.Error # ""
              THEN /\ outcome' = o
                   /\ stream' = respBody(o)
                   /\ mr' = makeRequest("idStruct", o)
                   /\ ret' = [resp |-> ApiResponse(NilPtr, domainResult.Error), err |-> NoErr]
                   /\ pc' = "returned"
                   /\ req' = NoReq
                   /\ UNCHANGED <<call, wire>>
              ELSE IF ~webhookURL.nil
              THEN /\ call' = [call EXCEPT !.stage = 2, !.domainResult = domainResult]
                   /\ req' = e.req
                   /\ CASE e.kind = "sent" ->
                             /\ pc' = "inflight"
                             /\ outcome' = o
                             /\ stream' = respBody(o)
                             /\ mr' = makeRequest("idStruct", o)
                             /\ wire' = Append(wire, e.req)
                             /\ ret' = NoRet
                        [] e.kind = "returned" ->
                             /\ pc' = "returned"
                             /\ outcome' = NoOutcome
                             /\ stream' = respBody(o)
                             /\ mr' = e.ret
                             /\ UNCHANGED wire
                             /\ ret' = [resp |-> ApiResponse(
                                           Ptr([domain |-> domainResult.Data,
                                                endpoint |-> e.ret.resp.Data]), ""),
                                        err |-> NoErr]
                        [] e.kind = "panic" ->
                             /\ pc' = "panicked"
                             /\ outcome' = NoOutcome
                             /\ stream' = respBody(o)
                             /\ mr' = NoRet
                             /\ UNCHANGED wire
                             /\ ret' = NoRet
              ELSE /\ outcome' = o
                   /\ stream' = respBody(o)
                   /\ mr' = makeRequest("idStruct", o)
                   /\ ret' = [resp |-> ApiResponse(Ptr(domainResult.Data), ""), err |-> NoErr]
                   /\ pc' = "returned"
                   /\ req' = NoReq
                   /\ UNCHANGED <<call, wire>>
    /\ UNCHANGED <<clientVars, qsVars, fnVars, thVars>>

\* Inbound.SetupDomain, lines 1065-1098, from the answer to the domain request:
\* it returns, or goes on to create the endpoint. The endpoint's makeRequest
\* may return without sending anything; SetupDomain then goes on to line 1088.
SetupDomainCreated ==
    /\ pc = "inflight"
    /\ call.op = "SetupDomain"
    /\ call.stage = 1
    /\ \E o \in DoResults(req, call.ctx) :
          LET domainResult == makeRequest("idStruct", o).resp
              webhookURL == call.args.webhookURL
              e == EnterMakeRequest(SetupDomainEndpoint(call.args.domain, webhookURL),
                                    call.ctx)
          IN  IF domainResult.Error # ""
              THEN /\ outcome' = o
                   /\ stream' = respBody(o)
                   /\ mr' = makeRequest("idStruct", o)
                   /\ ret' = [resp |-> ApiResponse(NilPtr, domainResult.Error), err |-> NoErr]
                   /\ pc' = "returned"
                   /\ req' = NoReq
                   /\ UNCHANGED <<call, wire>>
              ELSE IF ~webhookURL.nil /\ webhookURL.val # ""
              THEN /\ call' = [call EXCEPT !.stage = 2, !.domainResult = domainResult]
                   /\ req' = e.req
                   /\ CASE e.kind = "sent" ->
                             /\ pc' = "inflight"
                             /\ outcome' = o
                             /\ stream' = respBody(o)
                             /\ mr' = makeRequest("idStruct", o)
                             /\ wire' = Append(wire, e.req)
                             /\ ret' = NoRet
                        [] e.kind = "returned" ->
                             /\ pc' = "returned"
                             /\ outcome' = NoOutcome
                             /\ stream' = respBody(o)
                             /\ mr' = e.ret
                             /\ UNCHANGED wire
                             /\ ret' = [resp |-> ApiResponse(
                                           Ptr([domain |-> domainResult.Data,
                                                endpoint |-> e.ret.resp.Data]), ""),
                                        err |-> NoErr]
                        [] e.kind = "panic" ->
                             /\ pc' = "panicked"
                             /\ outcome' = NoOutcome
                             /\ stream' = respBody(o)
                             /\ mr' = NoRet
                             /\ UNCHANGED wire
                             /\ ret' = NoRet
              ELSE /\ outcome' = o
                   /\ stream' = respBody(o)
                   /\ mr' = makeRequest("idStruct", o)
                   /\ ret' = [resp |-> ApiResponse(Ptr(domainResult.Data), ""), err |-> NoErr]
                   /\ pc' = "returned"
                   /\ req' = NoReq
                   /\ UNCHANGED <<call, wire>>
    /\ UNCHANGED <<clientVars, qsVars, fnVars, thVars>>

\* Inbound.SetupDomain, lines 1084-1093, from the answer to the endpoint request.
SetupDomainEndpointCreated ==
    /\ pc = "inflight"
    /\ call.op = "SetupDomain"
    /\ call.stage = 2
    /\ \E o \in DoResults(req, call.ctx) :
          LET endpointResult == makeRequest("idStruct", o).resp
          IN  /\ outcome' = o
              /\ stream' = respBody(o)
              /\ mr' = makeRequest("idStruct", o)
              /\ ret' = [resp |-> ApiResponse(Ptr([domain |-> call.domainResult.Data,
                                                   endpoint |-> endpointResult.Data]), ""),
                         err |-> NoErr]
    /\ pc' = "returned"
    /\ req' = NoReq
    /\ UNCHANGED <<clientVars, call, wire, qsVars, fnVars, thVars>>

\* The caller is done with the result of the call (or has recovered from its
\* panic) and is ready for the next one; nothing of a call outlives it.
Finish ==
    /\ pc \in {"returned", "panicked"}
    /\ pc' = "idle"
    /\ call' = NoCall
    /\ req' = NoReq
    /\ wire' = << >>
    /\ outcome' = NoOutcome
    /\ stream' = NoStream
    /\ mr' = NoRet
    /\ ret' = NoRet
    /\ UNCHANGED <<clientVars, qsVars, fnVars, thVars>>

Next ==
    \/ WithHTTPClient
    \/ CallMailList
    \/ CallMailGet
    \/ CallMailMarkRead
    \/ CallEmailSend
    \/ CallEmailGet
    \/ CallEmailReply
    \/ CallEmailSchedule
    \/ CallEmailCancel
    \/ CallDomainGet
    \/ CallDomainVerify
    \/ CallEndpointDelete
    \/ CallThreadGet
    \/ CallQuickReply
    \/ CallCreateForwarder
    \/ CallScheduleReminder
    \/ CallSetupDomain
    \/ Return
    \/ SetupDomainCreated
    \/ SetupDomainEndpointCreated
    \/ Finish

Spec == Init /\ [][Next]_vars

-----------------------------------------------------------------------------
(* buildQueryString on its own: the inputs are parameter structs of the     *)
(* package, with field values drawn from small sets.                        *)

MaxLimit == 10

IntValues == {0, MaxLimit}
StringValues == {"", "a b"}
PtrInts == {NilPtrTo("int")} \cup {PtrTo(IntV(n)) : n \in IntValues}
PtrBools == {NilPtrTo("bool"), PtrTo(BoolV(FALSE)), PtrTo(BoolV(TRUE))}
PtrStrings == {NilPtrTo("string")} \cup {PtrTo(StringV(x)) : x \in StringValues}
PtrFloats == {NilPtrTo("float64"), PtrTo(FloatV)}

\* type GetEndpointsRequest
GetEndpointsRequests ==
    {StructV("GetEndpointsRequest",
             << Field("Limit", "limit,omitempty", l),
                Field("Offset", "offset,omitempty", o),
                Field("Type", "type,omitempty", StringV(t)),
                Field("Active", "active,omitempty", StringV(a)) >>) :
        l \in PtrInts, o \in PtrInts, t \in StringValues, a \in StringValues}

\* type GetMailRequest
GetMailRequests ==
    {GetMailRequest(l, x, i) : l \in PtrInts, x \in StringValues, i \in PtrBools}

\* type GetThreadsFilters
GetThreadsFiltersValues ==
    {StructV("GetThreadsFilters",
             << Field("Search", "search,omitempty", x),
                Field("UnreadOnly", "unreadOnly,omitempty", u),
                Field("ArchivedOnly", "archivedOnly,omitempty", NilPtrTo("bool")),
                Field("Domain", "domain,omitempty", d),
                Field("Address", "address,omitempty", NilPtrTo("string")) >>) :
        x \in PtrStrings, u \in PtrBools, d \in PtrStrings}

\* type Pagination
Paginations ==
    {StructV("Pagination",
             << Field("Limit", "limit", IntV(l)),
                Field("Offset", "offset", IntV(o)),
                Field("Total", "total", IntV(MaxLimit)),
                Field("HasMore", "hasMore,omitempty", BoolV(h)) >>) :
        l \in IntValues, o \in IntValues, h \in BOOLEAN}

\* A struct with the field shapes the real parameter structs lack: omitempty
\* integers, fields without omitempty, unsupported kinds and a pointer to
\* one, an unexported field, an untagged field and a field tagged "-".
ProbeStructs ==
    {StructV("probe",
             << Field("Count", "count,omitempty", IntV(c)),
                Field("Name", "name", StringV(n)),
                Field("Flag", "flag", BoolV(f)),
                Field("Page", "page", p),
                Field("Ratio", "ratio", FloatV),
                Field("Tags", "tags,omitempty", SliceV),
                Field("Score", "score,omitempty", sc),
                Field("hidden", "hidden", StringV("h")),
                Field("Skip", "-", StringV("s")),
                Field("NoTag", "", StringV("t")) >>) :
        c \in IntValues, n \in StringValues, f \in BOOLEAN, p \in PtrInts, sc \in PtrFloats}

QSInputs ==
    {NilInterface, NilPtrTo("GetMailRequest"), StringV("limit=1")}
    \cup {PtrTo(x) : x \in GetEndpointsRequests \cup GetMailRequests \cup GetThreadsFiltersValues}
    \cup Paginations \cup ProbeStructs

InitQS ==
    /\ apiKey = "key-a"
    /\ baseURL = DefaultBaseURL
    /\ httpClient = "default"
    /\ pc = "idle"
    /\ call = NoCall
    /\ req = NoReq
    /\ wire = << >>
    /\ outcome = NoOutcome
    /\ stream = NoStream
    /\ mr = NoRet
    /\ ret = NoRet
    /\ qsParams \in QSInputs
    /\ qsOut = NotCalled
    /\ fnIn = NoFn
    /\ fnOut = NotCalled
    /\ th = NoThreads

\* buildQueryString(qsParams) is evaluated.
BuildQueryString ==
    /\ ~qsOut.called
    /\ qsOut' = Returned(buildQueryString(qsParams))
    /\ UNCHANGED <<clientVars, callVars, qsParams, fnVars, thVars>>

NextQS == BuildQueryString

SpecQS == InitQS /\ [][NextQS]_vars

-----------------------------------------------------------------------------
(* The webhook payload: encoding/json into WebhookPayload, and its accessors *)

\* JSON arrays and objects (strings, numbers and null are JString, JNumber
\* and JNull above). An object is a function from its keys to their values.
JBool == [t |-> "bool", s |-> ""]
JArray(items) == [t |-> "array", items |-> items]
JObject(fields) == [t |-> "object", fields |-> fields]

\* The value under key k of object j; an absent key decodes like null.
Get(j, k) == IF k \in DOMAIN j.fields THEN j.fields[k] ELSE JNull

\* The result of decoding one value, and the first error of two results.
Decoded1(v) == [val |-> v, err |-> NoErr]
TypeError(j, goType) ==
    "json: cannot unmarshal " \o j.t \o " into Go value of type " \o goType
FirstErr(a, b) == IF a # NoErr THEN a ELSE b

\* Decoding into a string field: null leaves "".
DecodeString(j) ==
    CASE j.t = "string" -> Decoded1(j.s)
      [] j.t = "null" -> Decoded1("")
      [] OTHER -> [val |-> "", err |-> TypeError(j, "string")]

\* Decoding into a *string field (WebhookAddress.Name): null leaves nil.
DecodeStringPtr(j) ==
    CASE j.t = "string" -> Decoded1(Ptr(j.s))
      [] j.t = "null" -> Decoded1(NilPtr)
      [] OTHER -> [val |-> NilPtr, err |-> TypeError(j, "string")]

\* type WebhookAddress
WebhookAddress(name, address) == [Name |-> name, Address |-> address]

DecodeAddress(j) ==
    CASE j.t = "object" ->
            LET name == DecodeStringPtr(Get(j, "name"))
                address == DecodeString(Get(j, "address"))
            IN  [val |-> WebhookAddress(name.val, address.val),
                 err |-> FirstErr(name.err, address.err)]
      [] j.t = "null" -> Decoded1(WebhookAddress(NilPtr, ""))
      [] OTHER -> [val |-> WebhookAddress(NilPtr, ""),
                   err |-> TypeError(j, "inboundgo.WebhookAddress")]

\* Decoding into []WebhookAddress, element by element.
RECURSIVE DecodeAddressItems(_)
DecodeAddressItems(items) ==
    IF Len(items) = 0 THEN Decoded1(<< >>)
    ELSE LET head == DecodeAddress(items[1])
             rest == DecodeAddressItems(Tail(items))
         IN  [val |-> <<head.val>> \o rest.val, err |-> FirstErr(head.err, rest.err)]

DecodeAddresses(j) ==
    CASE j.t = "array" -> DecodeAddressItems(j.items)
      [] j.t = "null" -> Decoded1(<< >>)
      [] OTHER -> [val |-> << >>, err |-> TypeError(j, "[]inboundgo.WebhookAddress")]

\* type WebhookAddressGroup
WebhookAddressGroup(text, addresses) == [Text |-> text, Addresses |-> addresses]

DecodeAddressGroup(j) ==
    CASE j.t = "object" ->
            LET text == DecodeString(Get(j, "text"))
                addresses == DecodeAddresses(Get(j, "addresses"))
            IN  [val |-> WebhookAddressGroup(text.val, addresses.val),
                 err |-> FirstErr(text.err, addresses.err)]
      [] j.t = "null" -> Decoded1(WebhookAddressGroup("", << >>))
      [] OTHER -> [val |-> WebhookAddressGroup("", << >>),
                   err |-> TypeError(j, "inboundgo.WebhookAddressGroup")]

\* A Go value of static type `any`, as a header value: what encoding/json
\* stores for a JSON value, and []string, which only a caller's own code stores.
GoNil == [g |-> "nil"]
GoFloat == [g |-> "float64"]
GoBool == [g |-> "bool"]
GoString(x) == [g |-> "string", s |-> x]
GoStrings(xs) == [g |-> "[]string", strs |-> xs]
GoSlice(items) == [g |-> "[]any", items |-> items]
GoMap(m) == [g |-> "map[string]any", m |-> m]

\* Decoding into a value of type `any`
RECURSIVE DecodeAny(_)
DecodeAny(j) ==
    CASE j.t = "string" -> GoString(j.s)
      [] j.t = "number" -> GoFloat
      [] j.t = "bool" -> GoBool
      [] j.t = "null" -> GoNil
      [] j.t = "array" -> GoSlice([i \in 1..Len(j.items) |-> DecodeAny(j.items[i])])
      [] j.t = "object" -> GoMap([k \in DOMAIN j.fields |-> DecodeAny(j.fields[k])])

\* The empty map[string]any (also standing for the nil map: both have no keys)
NoHeaderValues == [k \in {} |-> GoNil]

\* Decoding into Headers map[string]any
DecodeHeaders(j) ==
    CASE j.t = "object" -> Decoded1([k \in DOMAIN j.fields |-> DecodeAny(j.fields[k])])
      [] j.t = "null" -> Decoded1(NoHeaderValues)
      [] OTHER -> [val |-> NoHeaderValues, err |-> TypeError(j, "map[string]interface {}")]

\* type WebhookParsedData (its Date, of type any, and its Headers)
WebhookParsedData(date, headers) == [Date |-> date, Headers |-> headers]

\* A mutant of the decoding of parsed data: a date object is replaced by the
\* string under its key "iso".
DecodeParsedDataNormalizingDate(j) ==
    CASE j.t = "object" ->
            LET date == DecodeAny(Get(j, "date"))
                headers == DecodeHeaders(Get(j, "headers"))
                iso == IF date.g = "map[string]any" /\ "iso" \in DOMAIN date.m /\ date.m["iso"].g = "string"
                       THEN date.m["iso"] ELSE date
            IN  [val |-> WebhookParsedData(iso, headers.val), err |-> headers.err]
      [] j.t = "null" -> Decoded1(WebhookParsedData(GoNil, NoHeaderValues))
      [] OTHER -> [val |-> WebhookParsedData(GoNil, NoHeaderValues),
                   err |-> TypeError(j, "inboundgo.WebhookParsedData")]

DecodeParsedData(j) ==
    CASE j.t = "object" ->
            LET date == DecodeAny(Get(j, "date"))
                headers == DecodeHeaders(Get(j, "headers"))
            IN  [val |-> WebhookParsedData(date, headers.val), err |-> headers.err]
      [] j.t = "null" -> Decoded1(WebhookParsedData(GoNil, NoHeaderValues))
      [] OTHER -> [val |-> WebhookParsedData(GoNil, NoHeaderValues),
                   err |-> TypeError(j, "inboundgo.WebhookParsedData")]

\* type WebhookEmailData (its From, To and ParsedData)
WebhookEmailData(from, to, parsedData) ==
    [From |-> from, To |-> to, ParsedData |-> parsedData]
ZeroEmailData ==
    WebhookEmailData(WebhookAddressGroup("", << >>), WebhookAddressGroup("", << >>),
                     WebhookParsedData(GoNil, NoHeaderValues))

DecodeEmailData(j) ==
    CASE j.t = "object" ->
            LET from == DecodeAddressGroup(Get(j, "from"))
                to == DecodeAddressGroup(Get(j, "to"))
                parsedData == DecodeParsedData(Get(j, "parsedData"))
            IN  [val |-> WebhookEmailData(from.val, to.val, parsedData.val),
                 err |-> FirstErr(from.err, FirstErr(to.err, parsedData.err))]
      [] j.t = "null" -> Decoded1(ZeroEmailData)
      [] OTHER -> [val |-> ZeroEmailData, err |-> TypeError(j, "inboundgo.WebhookEmailData")]

\* type WebhookPayload (its Event and Email)
WebhookPayload(event, email) == [Event |-> event, Email |-> email]

DecodePayload(j) ==
    CASE j.t = "object" ->
            LET event == DecodeString(Get(j, "event"))
                email == DecodeEmailData(Get(j, "email"))
            IN  [val |-> WebhookPayload(event.val, email.val),
                 err |-> FirstErr(event.err, email.err)]
      [] j.t = "null" -> Decoded1(WebhookPayload("", ZeroEmailData))
      [] OTHER -> [val |-> WebhookPayload("", ZeroEmailData),
                   err |-> TypeError(j, "inboundgo.WebhookPayload")]

\* An io.Reader: no bytes, bytes that are no JSON value, or one JSON document.
EmptyReader == [kind |-> "empty"]
MalformedReader == [kind |-> "malformed"]
DocumentReader(j) == [kind |-> "document", doc |-> j]

\* json.NewDecoder(reader).Decode(&payload), payload a zero WebhookPayload
DecoderDecode(reader) ==
    CASE reader.kind = "empty" ->
            [val |-> WebhookPayload("", ZeroEmailData), err |-> "EOF"]
      [] reader.kind = "malformed" ->
            [val |-> WebhookPayload("", ZeroEmailData),
             err |-> "invalid character 'o' in literal null (expecting 'u')"]
      [] reader.kind = "document" -> DecodePayload(reader.doc)

\* A mutant of ParseWebhookPayload: the payload decoded so far is handed out
\* together with the error.
ParseWebhookPayloadPartial(reader) ==
    LET d == DecoderDecode(reader)
    IN  IF d.err # NoErr
        THEN [payload |-> Ptr(d.val), err |-> "failed to parse webhook payload: " \o d.err]
        ELSE [payload |-> Ptr(d.val), err |-> NoErr]

\* ParseWebhookPayload(reader): (*WebhookPayload, error)
ParseWebhookPayload(reader) ==
    LET d == DecoderDecode(reader)
    IN  IF d.err # NoErr
        THEN [payload |-> NilPtr, err |-> "failed to parse webhook payload: " \o d.err]
        ELSE [payload |-> Ptr(d.val), err |-> NoErr]

\* A mutant of the address format: the name is only tested for nil.
formatFirstAddressAnyName(group) ==
    IF Len(group.Addresses) > 0
    THEN LET addr == group.Addresses[1]
         IN  IF ~addr.Name.nil
             THEN addr.Name.val \o " <" \o addr.Address \o ">"
             ELSE addr.Address
    ELSE ""

\* The body shared by GetFromAddress and GetToAddress, on an address group.
formatFirstAddress(group) ==
    IF Len(group.Addresses) > 0
    THEN LET addr == group.Addresses[1]
         IN  IF ~addr.Name.nil /\ addr.Name.val # ""
             THEN addr.Name.val \o " <" \o addr.Address \o ">"
             ELSE addr.Address
    ELSE ""

\* WebhookPayload.GetFromAddress
GetFromAddress(w) == formatFirstAddress(w.Email.From)

\* WebhookPayload.GetToAddress
GetToAddress(w) == formatFirstAddress(w.Email.To)

\* What GetHeaders stores under a key: nothing, or a []string.
NotSet == [set |-> FALSE, val |-> << >>]
SetTo(strs) == [set |-> TRUE, val |-> strs]

\* GetHeaders, case []any: the string items, in order.
stringItems(items) ==
    LET strs == SelectSeq(items, LAMBDA item : item.g = "string")
    IN  [i \in 1..Len(strs) |-> strs[i].s]

\* val["text"].(string) and val["value"].(string)
IsStringAt(m, k) == k \in DOMAIN m /\ m[k].g = "string"

\* A mutant of the type switch: a []any is stored even when no string is in it.
headerValueKeepingEmpty(v) ==
    CASE v.g = "string" -> SetTo(<<v.s>>)
      [] v.g = "[]string" -> SetTo(v.strs)
      [] v.g = "[]any" -> SetTo(stringItems(v.items))
      [] v.g = "map[string]any" ->
            IF IsStringAt(v.m, "text") THEN SetTo(<<v.m["text"].s>>)
            ELSE IF IsStringAt(v.m, "value") THEN SetTo(<<v.m["value"].s>>)
            ELSE NotSet
      [] OTHER -> NotSet

\* GetHeaders, the type switch on one header value.
headerValue(v) ==
    CASE v.g = "string" -> SetTo(<<v.s>>)
      [] v.g = "[]string" -> SetTo(v.strs)
      [] v.g = "[]any" ->
            LET strSlice == stringItems(v.items)
            IN  IF Len(strSlice) > 0 THEN SetTo(strSlice) ELSE NotSet
      [] v.g = "map[string]any" ->
            IF IsStringAt(v.m, "text") THEN SetTo(<<v.m["text"].s>>)
            ELSE IF IsStringAt(v.m, "value") THEN SetTo(<<v.m["value"].s>>)
            ELSE NotSet
      [] OTHER -> NotSet

\* WebhookPayload.GetHeaders
GetHeaders(w) ==
    LET in == w.Email.ParsedData.Headers
    IN  [k \in {h \in DOMAIN in : headerValue(in[h]).set} |-> headerValue(in[k]).val]

-----------------------------------------------------------------------------
(* NewClient and the webhook functions as functions of their arguments: one *)
(* evaluation per behaviour, with the arguments drawn from small sets.      *)

MaxAddresses == 2

NewClientInputs ==
    {[fn |-> "NewClient", key |-> k, baseURL |-> b] :
        k \in {""} \cup ApiKeys,
        b \in BaseURLArgs \cup {<<"http://localhost:8080", "http://localhost:9090">>}}

\* Address lists of up to MaxAddresses entries
Names == {NilPtr, Ptr(""), Ptr("Ann")}
AddressEntries == {WebhookAddress(n, a) : n \in Names, a \in {"a@x.com", "b@y.org"}}
AddressLists == UNION {[1..n -> AddressEntries] : n \in 0..MaxAddresses}
OtherLists == {<< >>, <<WebhookAddress(Ptr("Bob"), "bob@z.net")>>}

PayloadWith(from, to, headers) ==
    WebhookPayload("email.received",
                   WebhookEmailData(WebhookAddressGroup("", from),
                                    WebhookAddressGroup("", to),
                                    WebhookParsedData(GoNil, headers)))

AddressPayloads ==
    {PayloadWith(l, o, NoHeaderValues) : l \in AddressLists, o \in OtherLists}
    \cup {PayloadWith(o, l, NoHeaderValues) : l \in AddressLists, o \in OtherLists}

\* Header values of every shape GetHeaders distinguishes
HeaderValues ==
    {GoString("v"), GoNil, GoFloat,
     GoStrings(<< >>), GoStrings(<<"a", "b">>),
     GoSlice(<< >>), GoSlice(<<GoString("a"), GoString("b")>>),
     GoSlice(<<GoFloat, GoString("b"), GoNil, GoString("a")>>), GoSlice(<<GoFloat>>),
     GoMap("text" :> GoString("t")), GoMap("value" :> GoString("w")),
     GoMap("text" :> GoString("t") @@ "value" :> GoString("w")),
     GoMap("text" :> GoFloat @@ "value" :> GoString("w")),
     GoMap("novalue" :> GoFloat)}

HeaderMaps ==
    UNION {[ks -> HeaderValues] : ks \in SUBSET {"k1", "k2"}}
    \cup {"k1" :> GoString("v") @@ "k2" :> GoSlice(<<GoString("a"), GoString("b")>>)
          @@ "k3" :> GoMap("text" :> GoString("t")) @@ "k4" :> GoMap("novalue" :> GoFloat)}

HeaderPayloads == {PayloadWith(<< >>, << >>, h) : h \in HeaderMaps}

\* JSON documents: well-typed payloads and ones that break the typing at
\* each level.
JAddresses ==
    {JNull, JArray(<< >>), JString("a@x.com"), JObject("0" :> JNull),
     JArray(<<JObject("name" :> JString("Ann") @@ "address" :> JString("a@x.com"))>>),
     JArray(<<JObject("name" :> JNull @@ "address" :> JString("a@x.com")),
              JObject("name" :> JString("Bob") @@ "address" :> JString("bob@z.net"))>>),
     JArray(<<JObject("name" :> JNumber @@ "address" :> JString("a@x.com"))>>),
     JArray(<<JString("a@x.com")>>)}
JGroups ==
    {JNull, JArray(<< >>)}
    \cup {JObject("text" :> JString("") @@ "addresses" :> a) : a \in JAddresses}
JHeaderDocs ==
    {JNull, JArray(<< >>), JObject([k \in {} |-> JNull]),
     JObject("k1" :> JString("v") @@ "k2" :> JArray(<<JString("a"), JString("b")>>)
             @@ "k3" :> JObject("text" :> JString("t"))
             @@ "k4" :> JObject("novalue" :> JNumber)),
     JObject("k1" :> JArray(<<JNumber, JBool>>) @@ "k2" :> JNumber)}
\* The shapes senders give the date: a timestamp string, a structured date
\* object, and a number.
JDates ==
    {JString("2025-09-16T16:47:50.163Z"),
     JObject("iso" :> JString("2025-09-16T16:47:50.163Z") @@ "epoch" :> JNumber),
     JObject([k \in {} |-> JNull]),
     JNumber}
JEmails ==
    {JNull, JArray(<< >>), JString("email")}
    \cup {JObject("parsedData" :> JObject("date" :> d)) : d \in JDates}
    \cup {JObject("from" :> f @@ "to" :> JNull
                  @@ "parsedData" :> JObject("headers" :> h)) :
             f \in JGroups, h \in JHeaderDocs}
    \cup {JObject("to" :> t @@ "parsedData" :> JString("none")) : t \in JGroups}
JDocuments ==
    {JNull, JArray(<< >>), JString("email.received"), JNumber, JBool,
     JObject([k \in {} |-> JNull])}
    \cup {JObject("event" :> ev @@ "email" :> em) :
             ev \in {JString("email.received"), JNumber}, em \in JEmails}

Readers == {EmptyReader, MalformedReader} \cup {DocumentReader(j) : j \in JDocuments}

\* The payloads ParseWebhookPayload hands out for Readers
ParsedPayloads ==
    {ParseWebhookPayload(r).payload.val :
        r \in {x \in Readers : ParseWebhookPayload(x).err = NoErr}}

FnInputs ==
    NewClientInputs
    \cup {[fn |-> "ParseWebhookPayload", reader |-> r] : r \in Readers}
    \cup {[fn |-> f, w |-> w] :
             f \in {"GetFromAddress", "GetToAddress"},
             w \in AddressPayloads \cup ParsedPayloads}
    \cup {[fn |-> "GetHeaders", w |-> w] : w \in HeaderPayloads \cup ParsedPayloads}

InitFn ==
    /\ apiKey = "key-a"
    /\ baseURL = DefaultBaseURL
    /\ httpClient = "default"
    /\ pc = "idle"
    /\ call = NoCall
    /\ req = NoReq
    /\ wire = << >>
    /\ outcome = NoOutcome
    /\ stream = NoStream
    /\ mr = NoRet
    /\ ret = NoRet
    /\ qsParams = NilInterface
    /\ qsOut = NotCalled
    /\ fnIn \in FnInputs
    /\ fnOut = NotCalled
    /\ th = NoThreads

\* fnIn is evaluated by f.
Evaluate(name, result) ==
    /\ fnIn.fn = name
    /\ ~fnOut.called
    /\ fnOut' = Returned(result)
    /\ UNCHANGED <<clientVars, callVars, qsVars, fnIn, thVars>>

EvalNewClient == Evaluate("NewClient", NewClient(fnIn.key, fnIn.baseURL))
EvalParseWebhookPayload == Evaluate("ParseWebhookPayload", ParseWebhookPayload(fnIn.reader))
EvalGetFromAddress == Evaluate("GetFromAddress", GetFromAddress(fnIn.w))
EvalGetToAddress == Evaluate("GetToAddress", GetToAddress(fnIn.w))
EvalGetHeaders == Evaluate("GetHeaders", GetHeaders(fnIn.w))

NextFn ==
    \/ EvalNewClient
    \/ EvalParseWebhookPayload
    \/ EvalGetFromAddress
    \/ EvalGetToAddress
    \/ EvalGetHeaders

SpecFn == InitFn /\ [][NextFn]_vars

-----------------------------------------------------------------------------
(* Several goroutines on one client. The package has no lock, channel or    *)
(* atomic: a goroutine's reads and writes of the client's fields are        *)
(* ordered with another's only by the interleaving.                         *)

MaxThreads == 2
Threads == 1..MaxThreads

\* A goroutine outside any method of the client
Idle == [pc |-> "idle", url |-> "", key |-> "", client |-> "none", pending |-> "none"]

Running == \A t \in Threads : th[t].pc # "panicked"

InitThreads ==
    /\ \E key \in ApiKeys :
          LET c == NewClient(key, << >>)
          IN  /\ apiKey = c.client.val.apiKey
              /\ baseURL = c.client.val.baseURL
              /\ httpClient = c.client.val.httpClient
    /\ pc = "idle"
    /\ call = NoCall
    /\ req = NoReq
    /\ wire = << >>
    /\ outcome = NoOutcome
    /\ stream = NoStream
    /\ mr = NoRet
    /\ ret = NoRet
    /\ qsParams = NilInterface
    /\ qsOut = NotCalled
    /\ fnIn = NoFn
    /\ fnOut = NotCalled
    /\ th = [t \in Threads |-> Idle]

\* Inbound.request, line 496: url := c.baseURL + endpoint
EnterRequest(t) ==
    /\ Running
    /\ th[t].pc = "idle"
    /\ th' = [th EXCEPT ![t] = [Idle EXCEPT !.pc = "request", !.url = baseURL]]
    /\ UNCHANGED <<clientVars, callVars, qsVars, fnVars>>

\* Inbound.request, line 513: req.Header.Set("Authorization", "Bearer "+c.apiKey)
SetDefaultHeaders(t) ==
    /\ Running
    /\ th[t].pc = "request"
    /\ th' = [th EXCEPT ![t].pc = "do", ![t].key = apiKey]
    /\ UNCHANGED <<clientVars, callVars, qsVars, fnVars>>

\* The values a read of c.httpClient by t can yield: the stored one, or one
\* that another goroutine is storing at the same time.
HTTPClientRead(t) ==
    {httpClient} \cup {th[u].pending : u \in {v \in Threads : v # t /\ th[v].pc = "with"}}

\* Inbound.request, line 521: return c.httpClient.Do(req)
ClientDo(t) ==
    /\ Running
    /\ th[t].pc = "do"
    /\ \E h \in HTTPClientRead(t) :
          th' = [th EXCEPT ![t].pc = IF h = "nil" THEN "panicked" ELSE "inflight",
                           ![t].client = h]
    /\ UNCHANGED <<clientVars, callVars, qsVars, fnVars>>

\* makeRequest returns to the caller.
Respond(t) ==
    /\ Running
    /\ th[t].pc = "inflight"
    /\ th' = [th EXCEPT ![t] = Idle]
    /\ UNCHANGED <<clientVars, callVars, qsVars, fnVars>>

\* Inbound.WithHTTPClient(client) is entered.
EnterWithHTTPClient(t) ==
    /\ Running
    /\ th[t].pc = "idle"
    /\ \E h \in {"custom", "nil"} :
          th' = [th EXCEPT ![t] = [Idle EXCEPT !.pc = "with", !.pending = h]]
    /\ UNCHANGED <<clientVars, callVars, qsVars, fnVars>>

\* Inbound.WithHTTPClient, line 490: c.httpClient = client
StoreHTTPClient(t) ==
    /\ Running
    /\ th[t].pc = "with"
    /\ httpClient' = th[t].pending
    /\ th' = [th EXCEPT ![t] = Idle]
    /\ UNCHANGED <<apiKey, baseURL, callVars, qsVars, fnVars>>

NextThreads ==
    \E t \in Threads :
        \/ EnterRequest(t)
        \/ SetDefaultHeaders(t)
        \/ ClientDo(t)
        \/ Respond(t)
        \/ EnterWithHTTPClient(t)
        \/ StoreHTTPClient(t)

SpecThreads == InitThreads /\ [][NextThreads]_vars

-----------------------------------------------------------------------------
(* Properties of the response envelope (specification Spec) *)

\* A call has returned after the server answered with status code and a body
\* that could be read.
Answered == pc = "returned" /\ outcome.err = NoErr /\ outcome.resp.readable

\* The body is a JSON object whose key "error" holds a string.
HasErrorShape(body) == body.kind = "object" /\ body.error.t = "string"

\* The body is valid JSON that matches target type T.
Decodable(T, body) ==
    IF T = "any" THEN body.kind \notin {"malformed", "empty"}
    ELSE /\ body.kind = "object"
         /\ T = "idStruct" => body.id.t \in {"absent", "string"}

\* The body cannot be decoded into T: malformed JSON, an empty body, or a type
\* mismatch.
Undecodable(T, body) ==
    \/ body.kind \in {"malformed", "empty"}
    \/ T # "any" /\ body.kind \in {"string", "number", "array"}
    \/ T = "idStruct" /\ body.kind = "object" /\ body.id.t = "number"

\* The value a decodable body holds, as a T.
Decoded(T, body) ==
    IF T = "any" THEN body
    ELSE [ID |-> IF T = "idStruct" /\ body.id.t = "string" THEN body.id.s ELSE ""]

ErrorOnly(msg) == [resp |-> ApiResponse(NilPtr, msg), err |-> NoErr]

\* C1: the envelope a completed call of any API method returns has exactly one
\* of its fields populated: Data non-nil and Error empty, or Data nil and Error
\* non-empty, whatever the HTTP outcome was.
C1_ExactlyOnePopulated ==
    pc = "returned" =>
        \/ ~ret.resp.Data.nil /\ ret.resp.Error = ""
        \/ ret.resp.Data.nil /\ ret.resp.Error # ""

\* A call answered 400 with the body {"error": ""} has returned an envelope
\* with Data nil and a non-empty Error.
C1_Witness ==
    /\ Answered
    /\ outcome.resp.StatusCode = 400
    /\ outcome.resp.Body = Obj(JString(""), Absent)
    /\ ret.resp.Data.nil
    /\ ret.resp.Error # ""

\* C2, as claimed: after a response with status >= 400 whose body is
\* {"error": X} with X a string, makeRequest and the API method return Error
\* equal to X, Data unset and a nil Go error.
C2_ErrorBodyBecomesError ==
    (Answered /\ outcome.resp.StatusCode >= 400 /\ HasErrorShape(outcome.resp.Body)) =>
        /\ mr = ErrorOnly(outcome.resp.Body.error.s)
        /\ ret = ErrorOnly(outcome.resp.Body.error.s)

\* C3, as claimed: after a response with status >= 400 whose body does not
\* parse into the {"error": "..."} shape, Error is "HTTP ", the status code,
\* a colon and the reason text of the status, and Data is unset.
C3_SynthesizedMessage ==
    (Answered /\ outcome.resp.StatusCode >= 400 /\ ~HasErrorShape(outcome.resp.Body)) =>
        mr.resp = ApiResponse(NilPtr,
                     "HTTP " \o ToString(outcome.resp.StatusCode) \o ": "
                             \o StatusText(outcome.resp.StatusCode))

\* C4: after a response with status < 400 whose body is valid JSON matching
\* the target type, makeRequest returns Data holding the decoded value, an
\* empty Error and a nil Go error, and so does the API method.
C4_SuccessDecoded ==
    (Answered /\ outcome.resp.StatusCode < 400 /\ Decodable(call.T, outcome.resp.Body)) =>
        /\ mr = [resp |-> ApiResponse(Ptr(Decoded(call.T, outcome.resp.Body)), ""),
                 err |-> NoErr]
        /\ ~ret.resp.Data.nil
        /\ ret.resp.Error = ""
        /\ ret.err = NoErr
        /\ call.op # "SetupDomain" => ret = mr

\* A call answered 399 with the body {"id": "res_1"} has returned Data with
\* ID "res_1".
C4_Witness ==
    /\ Answered
    /\ outcome.resp.StatusCode = 399
    /\ outcome.resp.Body = Obj(Absent, JString("res_1"))
    /\ call.T = "idStruct"
    /\ ret.resp.Data = Ptr([ID |-> "res_1"])

\* C5, as claimed: after a response with status < 400 whose body cannot be
\* decoded into the target type, the call returns a nil Go error and an
\* envelope with Data unset and Error "Failed to parse response".
C5_ParseFailureEnvelope ==
    (Answered /\ outcome.resp.StatusCode < 400 /\ Undecodable(call.T, outcome.resp.Body)) =>
        ret = ErrorOnly("Failed to parse response")

\* C6, as claimed: when the HTTP call yields no response, the API method
\* returns a nil Go error and an envelope with Data unset and Error equal to
\* the transport error's message.
C6_TransportFailureEnvelope ==
    (pc = "returned" /\ outcome.err \notin {NoErr, "none"}) =>
        ret = ErrorOnly(outcome.err)

\* C7, as claimed: when the request could not be constructed (the body cannot
\* be marshalled, or the method or URL is malformed), the API method returns a
\* non-nil Go error.
C7_ConstructionFailureRaises ==
    (pc = "returned" /\ outcome = NoOutcome) => ret.err # NoErr

\* C27: the status code alone chooses the bucket of a response that was read.
\* Below 400 the Error is never taken from the body: it is empty, with Data
\* holding the decoded body, whenever the body decodes into T (also when the
\* body has an "error" key), and "Failed to parse response" otherwise. From
\* 400 on the body is never decoded into T: Data is nil and Error is set, also
\* when the body is a valid T.
C27_BucketByStatus ==
    Answered =>
        LET code == outcome.resp.StatusCode
            body == outcome.resp.Body
        IN  /\ code < 400 =>
                  /\ mr.resp.Error \in {"", "Failed to parse response"}
                  /\ Decodable(call.T, body) =>
                        mr.resp = ApiResponse(Ptr(Decoded(call.T, body)), "")
                  /\ Undecodable(call.T, body) => mr.resp.Data.nil
            /\ code >= 400 =>
                  /\ mr.resp.Data.nil
                  /\ mr.resp.Error # ""

\* A call answered 200 with the body {"error": "Invalid API key", "id":
\* "res_1"} has returned Data with ID "res_1" and an empty Error.
C27_Witness ==
    /\ Answered
    /\ outcome.resp.StatusCode = 200
    /\ outcome.resp.Body = Obj(JString("Invalid API key"), JString("res_1"))
    /\ call.T = "idStruct"
    /\ mr.resp = ApiResponse(Ptr([ID |-> "res_1"]), "")

-----------------------------------------------------------------------------
(* Properties of the requests sent (specification Spec) *)

IdempotentOps == {"Email.Send", "Email.Reply", "Email.Schedule", "QuickReply",
                  "ScheduleReminder"}

\* C8: a request sent by Email.Send, Email.Reply, Email.Schedule, QuickReply or
\* ScheduleReminder carries the header Idempotency-Key with value k when the
\* options hold the non-empty key k, and carries no such header when options
\* is nil or the key is empty.
C8_IdempotencyKeyHeader ==
    call.op \in IdempotentOps =>
        \A i \in 1..Len(wire) :
            LET options == call.args.options
                header == wire[i].Header
            IN  IF ~options.nil /\ options.val.IdempotencyKey # ""
                THEN /\ "Idempotency-Key" \in DOMAIN header
                     /\ header["Idempotency-Key"] = options.val.IdempotencyKey
                ELSE "Idempotency-Key" \notin DOMAIN header

\* ScheduleReminder, called with the key "idem-1", has sent a request that
\* carries it.
C8_Witness ==
    /\ pc = "inflight"
    /\ call.op = "ScheduleReminder"
    /\ call.args.options = Ptr([IdempotencyKey |-> "idem-1"])
    /\ Len(wire) = 1
    /\ wire[1].Header["Idempotency-Key"] = "idem-1"

-----------------------------------------------------------------------------
(* Properties of buildQueryString (specification SpecQS) *)

\* The fields of the struct params is or points to.
ParamFields(params) ==
    CASE params.kind = "struct" -> params.fields
      [] params.kind = "ptr" ->
            IF ~params.isNil /\ params.elem.kind = "struct"
            THEN params.elem.fields ELSE << >>
      [] OTHER -> << >>

\* The keys of an encoded query string "?k1=v1&k2=v2".
QueryKeys(qs) ==
    IF qs = "" THEN {}
    ELSE LET pairs == Split(SubSeq(qs, 2, Len(qs)), "&")
         IN  {Split(pairs[i], "=")[1] : i \in 1..Len(pairs)}

TagKey(f) == Split(f.tag, ",")[1]
TagOmitEmpty(f) == Contains(Tail(Split(f.tag, ",")), "omitempty")

IsNilPointer(v) == v.kind = "ptr" /\ v.isNil
IsZeroValue(v) ==
    \/ v.kind = "string" /\ v.s = ""
    \/ v.kind = "int" /\ v.i = 0
    \/ v.kind = "bool" /\ ~v.b

\* C10: in the string buildQueryString returns, a field whose pointer is nil
\* is no key, and neither is a non-pointer field tagged omitempty that holds
\* the zero value of its type ("", 0 or false).
C10_OmissionRule ==
    qsOut.called =>
        \A i \in 1..Len(ParamFields(qsParams)) :
            LET f == ParamFields(qsParams)[i]
            IN  (IsNilPointer(f.v) \/ (TagOmitEmpty(f) /\ IsZeroValue(f.v))) =>
                    TagKey(f) \notin QueryKeys(qsOut.result)

\* buildQueryString has encoded a GetMailRequest with a nil Limit, an empty
\* Search and IncludeArchived set: only includeArchived is a key.
C10_Witness ==
    /\ qsOut.called
    /\ qsParams.kind = "ptr"
    /\ ~qsParams.isNil
    /\ qsParams.elem.typ = "GetMailRequest"
    /\ \E i \in 1..Len(ParamFields(qsParams)) : IsNilPointer(ParamFields(qsParams)[i].v)
    /\ \E i \in 1..Len(ParamFields(qsParams)) :
          LET f == ParamFields(qsParams)[i]
          IN  TagOmitEmpty(f) /\ IsZeroValue(f.v)
    /\ Cardinality(QueryKeys(qsOut.result)) = 1

\* The pairs "k=v" of an encoded query string "?k1=v1&k2=v2".
QueryPairs(qs) ==
    IF qs = "" THEN {}
    ELSE LET pairs == Split(SubSeq(qs, 2, Len(qs)), "&")
         IN  {pairs[i] : i \in 1..Len(pairs)}

IsSetPointer(v) == v.kind = "ptr" /\ ~v.isNil

\* C11, as claimed: in the string buildQueryString returns, a field that
\* points to the integer n is the pair key=<decimal text of n>, one that
\* points to the boolean b is key=true or key=false, and one that points to a
\* non-empty string s is key=s.
C11_PointerEncoding ==
    qsOut.called =>
        \A i \in 1..Len(ParamFields(qsParams)) :
            LET f == ParamFields(qsParams)[i]
                pair(val) == TagKey(f) \o "=" \o val
            IN  IsSetPointer(f.v) =>
                    CASE f.v.elem.kind = "int" ->
                            pair(FormatInt(f.v.elem.i)) \in QueryPairs(qsOut.result)
                      [] f.v.elem.kind = "bool" ->
                            pair(FormatBool(f.v.elem.b)) \in QueryPairs(qsOut.result)
                      [] f.v.elem.kind = "string" /\ f.v.elem.s # "" ->
                            pair(QueryEscape(f.v.elem.s)) \in QueryPairs(qsOut.result)
                      [] OTHER -> TRUE

\* The field is exported and carries a json tag that names a key.
IsTagged(f) == CanInterface(f) /\ f.tag # "" /\ f.tag # "-"

\* The text of a string, integer or boolean value in a query string.
ValueText(v) ==
    CASE v.kind = "string" -> QueryEscape(v.s)
      [] v.kind = "int" -> FormatInt(v.i)
      [] v.kind = "bool" -> FormatBool(v.b)

\* C12, as claimed: every exported, tagged field of a supported kind without
\* omitempty is a key of the string buildQueryString returns, also when it
\* holds "", 0, false or a nil pointer.
C12_AlwaysEmitted ==
    qsOut.called =>
        \A i \in 1..Len(ParamFields(qsParams)) :
            LET f == ParamFields(qsParams)[i]
            IN  (IsTagged(f) /\ ~TagOmitEmpty(f)
                 /\ f.v.kind \in {"string", "int", "bool", "ptr"}) =>
                    TagKey(f) \in QueryKeys(qsOut.result)

\* C12, amended: every exported, tagged string, integer or boolean field
\* without omitempty is the pair key=value of the string buildQueryString
\* returns, also when it holds "", 0 or false; a nil pointer field without
\* omitempty is no key.
C12_NonPointerAlwaysEmitted ==
    qsOut.called =>
        \A i \in 1..Len(ParamFields(qsParams)) :
            LET f == ParamFields(qsParams)[i]
            IN  (IsTagged(f) /\ ~TagOmitEmpty(f)) =>
                    /\ f.v.kind \in {"string", "int", "bool"} =>
                          (TagKey(f) \o "=" \o ValueText(f.v)) \in QueryPairs(qsOut.result)
                    /\ IsNilPointer(f.v) => TagKey(f) \notin QueryKeys(qsOut.result)

\* buildQueryString has encoded a Pagination with Limit 0, Offset 0 and
\* HasMore false: limit=0 and offset=0 are pairs of the result.
C12_Witness ==
    /\ qsOut.called
    /\ qsParams.kind = "struct"
    /\ qsParams.typ = "Pagination"
    /\ qsParams.fields[1].v = IntV(0)
    /\ qsParams.fields[2].v = IntV(0)
    /\ {"limit=0", "offset=0"} \subseteq QueryPairs(qsOut.result)

\* The input is an untyped nil or a nil pointer.
IsNilInput(params) == params.kind = "nil" \/ (params.kind = "ptr" /\ params.isNil)

\* The field is one buildQueryString emits: tagged, of a supported kind, and
\* neither a nil pointer nor left out as empty under omitempty.
Emits(f) ==
    /\ IsTagged(f)
    /\ \/ f.v.kind \in {"string", "int", "bool"} /\ ~(TagOmitEmpty(f) /\ IsZeroValue(f.v))
       \/ IsSetPointer(f.v)
          /\ ~(TagOmitEmpty(f) /\ f.v.elem.kind = "string" /\ f.v.elem.s = "")

NoFieldEmitted(params) ==
    \A i \in 1..Len(ParamFields(params)) : ~Emits(ParamFields(params)[i])

\* Every pair is key=value with a non-empty key.
WellFormedPairs(qs) ==
    \A pair \in QueryPairs(qs) : IndexOf(pair, "=") > 1

\* C13: buildQueryString returns "" when its input is nil (untyped, or a nil
\* pointer) or when no field is emitted; otherwise the result is "?" followed
\* by at least one key=value pair. It is never the bare "?".
C13_EmptyOrSeparator ==
    qsOut.called =>
        /\ IsNilInput(qsParams) => qsOut.result = ""
        /\ NoFieldEmitted(qsParams) <=> qsOut.result = ""
        /\ qsOut.result # "" =>
              /\ CharAt(qsOut.result, 1) = "?"
              /\ Len(qsOut.result) >= 3
              /\ QueryPairs(qsOut.result) # {}
              /\ WellFormedPairs(qsOut.result)
        /\ qsOut.result # "?"

\* buildQueryString has returned "" for a pointer to a GetMailRequest none of
\* whose fields is set.
C13_Witness ==
    /\ qsOut.called
    /\ qsParams = PtrTo(GetMailRequest(NilPtrTo("int"), "", NilPtrTo("bool")))
    /\ NoFieldEmitted(qsParams)
    /\ qsOut.result = ""

\* The types of the model that are neither string, signed integer nor
\* boolean, nor a pointer to one of these.
UnsupportedTypes == {"float64", "[]string", "*float64", "*[]string"}
IsUnsupported(v) == v.typ \in UnsupportedTypes

\* params without its fields of an unsupported type.
WithoutUnsupported(params) ==
    LET strip(st) == [st EXCEPT !.fields = SelectSeq(st.fields,
                                              LAMBDA f : ~IsUnsupported(f.v))]
    IN  CASE params.kind = "struct" -> strip(params)
          [] params.kind = "ptr" /\ ~params.isNil /\ params.elem.kind = "struct" ->
                [params EXCEPT !.elem = strip(params.elem)]
          [] OTHER -> params

\* C25, as claimed: a field whose type is neither string, signed integer nor
\* boolean (a float, a slice, a pointer to one of them) is no key of the
\* string buildQueryString returns, and the string is the one returned for
\* the same struct without these fields.
C25_UnsupportedSkipped ==
    qsOut.called =>
        /\ \A i \in 1..Len(ParamFields(qsParams)) :
              LET f == ParamFields(qsParams)[i]
              IN  IsUnsupported(f.v) => TagKey(f) \notin QueryKeys(qsOut.result)
        /\ qsOut.result = buildQueryString(WithoutUnsupported(qsParams))

-----------------------------------------------------------------------------
(* Properties of NewClient and the webhook functions (specification SpecFn) *)

Evaluated(name) == fnOut.called /\ fnIn.fn = name

\* C14: NewClient with an empty API key returns no client and the error
\* "API key is required"; with a non-empty key it returns a client holding that
\* key, with base URL "https://inbound.new/api/v2" when no base URL or an empty
\* one is given and the given base URL otherwise, and an HTTP client with a
\* timeout of 30 seconds.
C14_NewClient ==
    Evaluated("NewClient") =>
        LET r == fnOut.result
        IN  IF fnIn.key = ""
            THEN r.client.nil /\ r.err = "API key is required"
            ELSE /\ r.err = NoErr
                 /\ ~r.client.nil
                 /\ r.client.val.apiKey = fnIn.key
                 /\ r.client.val.baseURL =
                       (IF fnIn.baseURL = << >> \/ fnIn.baseURL[1] = ""
                        THEN "https://inbound.new/api/v2"
                        ELSE fnIn.baseURL[1])
                 /\ r.client.val.httpClient = "default"
                 /\ r.client.val.timeout = 30

\* NewClient("key-a", "") has returned a client with the default base URL.
C14_Witness ==
    /\ Evaluated("NewClient")
    /\ fnIn.key = "key-a"
    /\ fnIn.baseURL = <<"">>
    /\ fnOut.result.err = NoErr
    /\ fnOut.result.client.val.baseURL = "https://inbound.new/api/v2"

\* The JSON value fits the Go type of the field it is decoded into: the kind
\* the type calls for, or null.
FitsString(j) == j.t \in {"string", "null"}
FitsAddress(j) ==
    \/ j.t = "null"
    \/ j.t = "object" /\ FitsString(Get(j, "name")) /\ FitsString(Get(j, "address"))
FitsAddresses(j) ==
    \/ j.t = "null"
    \/ j.t = "array" /\ \A i \in 1..Len(j.items) : FitsAddress(j.items[i])
FitsGroup(j) ==
    \/ j.t = "null"
    \/ j.t = "object" /\ FitsString(Get(j, "text")) /\ FitsAddresses(Get(j, "addresses"))
FitsParsedData(j) ==
    \/ j.t = "null"
    \/ j.t = "object" /\ Get(j, "headers").t \in {"object", "null"}
FitsEmail(j) ==
    \/ j.t = "null"
    \/ /\ j.t = "object"
       /\ FitsGroup(Get(j, "from"))
       /\ FitsGroup(Get(j, "to"))
       /\ FitsParsedData(Get(j, "parsedData"))
FitsPayload(j) ==
    \/ j.t = "null"
    \/ j.t = "object" /\ FitsString(Get(j, "event")) /\ FitsEmail(Get(j, "email"))

\* The stream holds a valid JSON document that fits WebhookPayload.
HoldsPayload(reader) == reader.kind = "document" /\ FitsPayload(reader.doc)

WrapPrefix == "failed to parse webhook payload: "
Wraps(msg) == Len(msg) > Len(WrapPrefix) /\ SubSeq(msg, 1, Len(WrapPrefix)) = WrapPrefix

\* C15: ParseWebhookPayload returns a non-nil payload and a nil error for a
\* stream holding a valid JSON document that fits the payload's types, and a
\* nil payload and an error wrapping the decoder's error for a stream that is
\* empty, is no valid JSON or breaks the typing; never both, never neither.
C15_PayloadOrError ==
    Evaluated("ParseWebhookPayload") =>
        LET r == fnOut.result
        IN  /\ r.payload.nil <=> r.err # NoErr
            /\ HoldsPayload(fnIn.reader) => ~r.payload.nil /\ r.err = NoErr
            /\ ~HoldsPayload(fnIn.reader) => r.payload.nil /\ Wraps(r.err)

\* ParseWebhookPayload has returned no payload and an error for a document
\* whose email.from is an array.
C15_Witness ==
    /\ Evaluated("ParseWebhookPayload")
    /\ fnIn.reader.kind = "document"
    /\ fnIn.reader.doc.t = "object"
    /\ Get(fnIn.reader.doc, "email").t = "object"
    /\ Get(Get(fnIn.reader.doc, "email"), "from").t = "array"
    /\ fnOut.result.payload.nil
    /\ Wraps(fnOut.result.err)

\* The formatted first entry of an address list: "" for the empty list,
\* "N <A>" for a first entry with the non-empty name N, A otherwise.
FirstFormatted(addresses) ==
    IF addresses = << >> THEN ""
    ELSE LET first == addresses[1]
         IN  IF first.Name.nil \/ first.Name.val = ""
             THEN first.Address
             ELSE first.Name.val \o " <" \o first.Address \o ">"

\* C16: GetFromAddress and GetToAddress return the formatted first entry of
\* the email's from and to address list: "" for an empty list, "N <A>" for a
\* named first entry, the bare address for a null or empty name; later entries
\* and the other list have no influence.
C16_FirstAddressOnly ==
    /\ Evaluated("GetFromAddress") =>
          fnOut.result = FirstFormatted(fnIn.w.Email.From.Addresses)
    /\ Evaluated("GetToAddress") =>
          fnOut.result = FirstFormatted(fnIn.w.Email.To.Addresses)

\* GetToAddress has returned the bare first address of a list whose first
\* entry has an empty name and whose second entry is named.
C16_Witness ==
    /\ Evaluated("GetToAddress")
    /\ fnIn.w.Email.To.Addresses =
          <<WebhookAddress(Ptr(""), "a@x.com"), WebhookAddress(Ptr("Ann"), "b@y.org")>>
    /\ fnIn.w.Email.From.Addresses # << >>
    /\ fnOut.result = "a@x.com"

\* The string elements of a list of values, in their order.
RECURSIVE StringsOf(_)
StringsOf(items) ==
    IF Len(items) = 0 THEN << >>
    ELSE (IF items[1].g = "string" THEN <<items[1].s>> ELSE << >>)
         \o StringsOf(Tail(items))

\* The object has a string under key k.
HasString(v, k) == k \in DOMAIN v.m /\ v.m[k].g = "string"

\* C17, as claimed: GetHeaders maps a string v to [v], a list to the list of
\* its string elements in order, an object to [text] when it has a string
\* text, otherwise to [value] when it has a string value, and leaves an
\* object with neither out of the result.
C17_HeaderShapes ==
    Evaluated("GetHeaders") =>
        \A k \in DOMAIN fnIn.w.Email.ParsedData.Headers :
            LET v == fnIn.w.Email.ParsedData.Headers[k]
                out == fnOut.result
            IN  CASE v.g = "string" -> k \in DOMAIN out /\ out[k] = <<v.s>>
                  [] v.g = "[]string" -> k \in DOMAIN out /\ out[k] = v.strs
                  [] v.g = "[]any" -> k \in DOMAIN out /\ out[k] = StringsOf(v.items)
                  [] v.g = "map[string]any" ->
                        IF HasString(v, "text")
                        THEN k \in DOMAIN out /\ out[k] = <<v.m["text"].s>>
                        ELSE IF HasString(v, "value")
                        THEN k \in DOMAIN out /\ out[k] = <<v.m["value"].s>>
                        ELSE k \notin DOMAIN out
                  [] OTHER -> TRUE

\* C17, amended: as claimed, except that a list of values without any string
\* element (the empty list included) is left out of the result, like a value
\* that is neither a string, a list nor an object; the result has no other keys.
C17_HeaderShapesNonEmpty ==
    Evaluated("GetHeaders") =>
        /\ DOMAIN fnOut.result \subseteq DOMAIN fnIn.w.Email.ParsedData.Headers
        /\ \A k \in DOMAIN fnIn.w.Email.ParsedData.Headers :
              LET v == fnIn.w.Email.ParsedData.Headers[k]
                  out == fnOut.result
              IN  CASE v.g = "string" -> k \in DOMAIN out /\ out[k] = <<v.s>>
                    [] v.g = "[]string" -> k \in DOMAIN out /\ out[k] = v.strs
                    [] v.g = "[]any" ->
                          IF StringsOf(v.items) # << >>
                          THEN k \in DOMAIN out /\ out[k] = StringsOf(v.items)
                          ELSE k \notin DOMAIN out
                    [] v.g = "map[string]any" ->
                          IF HasString(v, "text")
                          THEN k \in DOMAIN out /\ out[k] = <<v.m["text"].s>>
                          ELSE IF HasString(v, "value")
                          THEN k \in DOMAIN out /\ out[k] = <<v.m["value"].s>>
                          ELSE k \notin DOMAIN out
                    [] OTHER -> k \notin DOMAIN out

\* GetHeaders has left out k1, a list holding only a number, and mapped k2, a
\* list of a number, "b", nil and "a", to ["b", "a"].
C17_Witness ==
    /\ Evaluated("GetHeaders")
    /\ fnIn.w.Email.ParsedData.Headers =
          ("k1" :> GoSlice(<<GoFloat>>)
           @@ "k2" :> GoSlice(<<GoFloat, GoString("b"), GoNil, GoString("a")>>))
    /\ fnOut.result = ("k2" :> <<"b", "a">>)

RECURSIVE At(_, _)
At(j, path) ==
    IF Len(path) = 0 THEN j
    ELSE IF j.t # "object" THEN JNull
    ELSE At(Get(j, path[1]), Tail(path))

\* C26: ParseWebhookPayload accepts a document whose parsed-data date is a
\* timestamp string and one whose date is a structured object alike, and the
\* payload's Date holds what was sent: the same string, or a map with the
\* same keys and the same strings under them.
C26_DateRaw ==
    (Evaluated("ParseWebhookPayload") /\ HoldsPayload(fnIn.reader)) =>
        LET sent == At(fnIn.reader.doc, <<"email", "parsedData", "date">>)
            r == fnOut.result
        IN  /\ r.err = NoErr
            /\ ~r.payload.nil
            /\ LET Date == r.payload.val.Email.ParsedData.Date
               IN  CASE sent.t = "string" -> Date = GoString(sent.s)
                     [] sent.t = "object" ->
                           /\ Date.g = "map[string]any"
                           /\ DOMAIN Date.m = DOMAIN sent.fields
                           /\ \A k \in DOMAIN sent.fields :
                                 sent.fields[k].t = "string" =>
                                     Date.m[k] = GoString(sent.fields[k].s)
                     [] sent.t = "null" -> Date = GoNil
                     [] OTHER -> Date.g \notin {"string", "map[string]any"}

\* ParseWebhookPayload has returned a payload whose Date is a map holding the
\* string sent under "iso", for a document whose date is an object.
C26_Witness ==
    /\ Evaluated("ParseWebhookPayload")
    /\ HoldsPayload(fnIn.reader)
    /\ At(fnIn.reader.doc, <<"email", "parsedData", "date">>).t = "object"
    /\ fnOut.result.err = NoErr
    /\ fnOut.result.payload.val.Email.ParsedData.Date.g = "map[string]any"
    /\ "iso" \in DOMAIN fnOut.result.payload.val.Email.ParsedData.Date.m
    /\ fnOut.result.payload.val.Email.ParsedData.Date.m["iso"]
          = GoString("2025-09-16T16:47:50.163Z")

-----------------------------------------------------------------------------
(* Properties of concurrent use (specification SpecThreads) *)

\* Goroutine t is inside an API call that has yet to read c.httpClient.
BeforeClientRead(t) == th[t].pc \in {"request", "do"}

\* C18, as claimed: the client's configuration is immutable once the client
\* exists: under every interleaving, no goroutine is writing a field of the
\* client while an API call of another goroutine that reads the field runs.
C18_NoWriteDuringCall ==
    \A t \in Threads, u \in Threads :
        ~(t # u /\ th[t].pc = "with" /\ BeforeClientRead(u))

-----------------------------------------------------------------------------
(* Properties of whole calls (specification Spec) *)

\* C19, as claimed: whatever WithHTTPClient calls came before and whatever the
\* arguments, an API call returns an envelope and never panics.
C19_NeverPanics == pc # "panicked"

\* The last request of the call ended in a transport failure or in a status
\* of 400 or more.
LastRequestFailed ==
    /\ outcome # NoOutcome
    /\ outcome.err # NoErr \/ outcome.resp.StatusCode >= 400

\* C20, as claimed: a call one of whose requests ended in a transport failure
\* or a status >= 400 returns an envelope with Error populated and Data
\* unset; SetupDomain with a webhook URL returns Data only when the domain and
\* the endpoint were both created.
C20_NoPartialSuccess ==
    (pc = "returned" /\ LastRequestFailed) =>
        ret.resp.Data.nil /\ ret.resp.Error # ""

-----------------------------------------------------------------------------
(* Properties of the requests of one call (specification Spec) *)

\* The last makeRequest of the call got an answer from c.request and turned
\* it into an error envelope: a transport failure, an unreadable body, a
\* status of 400 or more, or a body that does not decode.
LastAnswerFailed == outcome # NoOutcome /\ mr.resp.Error # ""

\* C21: no request is sent again. The requests handed to httpClient.Do during
\* a call are at most as many as the invocations of makeRequest the call has
\* made (one, or two for SetupDomain), and once an invocation has ended in a
\* transport failure, an error status or a decode failure the method has
\* returned, with no request in flight and no request sent after it.
C21_NoRetries ==
    /\ Len(wire) <= call.stage
    /\ call.op # "SetupDomain" => Len(wire) <= 1
    /\ LastAnswerFailed =>
          /\ pc = "returned"
          /\ req = NoReq
          /\ Len(wire) = call.stage

\* Email.Get has returned after a transport failure of the one request it
\* sent.
C21_Witness ==
    /\ pc = "returned"
    /\ call.op = "Email.Get"
    /\ outcome.err \notin {NoErr, "none"}
    /\ ret.resp.Error = outcome.err
    /\ Len(wire) = 1
    /\ req = NoReq

\* url.PathEscape on one character: letters, digits, "-_.~" and "$&+:=@" stay,
\* every other byte becomes %XX.
PathEscapeChar(c) ==
    IF Alnum(c) \/ c \in Unreserved \/ c \in {"$", "&", "+", ":", "=", "@"} THEN c
    ELSE LET byte == Rank(c) + 31
         IN  "%" \o HexOf(byte \div 16) \o HexOf(byte % 16)

\* url.PathEscape(s)
RECURSIVE PathEscape(_)
PathEscape(s) ==
    IF Len(s) = 0 THEN ""
    ELSE PathEscapeChar(CharAt(s, 1)) \o PathEscape(SubSeq(s, 2, Len(s)))

\* The API methods of the model that place a caller-supplied id into the path
IdOps == {"Mail.Get", "Mail.MarkRead", "Email.Get", "Email.Reply", "Email.Cancel",
          "Domain.Get", "Domain.Verify", "Endpoint.Delete", "Thread.Get", "QuickReply"}

\* The endpoint method op builds when the segment seg stands where the id goes.
EndpointWith(op, seg) ==
    CASE op = "Mail.Get" -> MailGet(seg).endpoint
      [] op = "Mail.MarkRead" -> MailMarkRead(seg).endpoint
      [] op = "Email.Get" -> EmailGet(seg).endpoint
      [] op = "Email.Reply" -> EmailReply(seg, NilPtr, NilPtr).endpoint
      [] op = "Email.Cancel" -> EmailCancel(seg).endpoint
      [] op = "Domain.Get" -> DomainGet(seg).endpoint
      [] op = "Domain.Verify" -> DomainVerify(seg).endpoint
      [] op = "Endpoint.Delete" -> EndpointDelete(seg).endpoint
      [] op = "Thread.Get" -> ThreadGet(seg).endpoint
      [] op = "QuickReply" -> QuickReply(seg, "", "", NilPtr).endpoint

\* C22, as claimed: the URL of every request sent by a method that takes an
\* id is the base URL followed by the method's path with url.PathEscape(id)
\* in the place of the id, so that an id containing '/', '?' or '#' adds no
\* path segment, query string or fragment.
C22_PathParamsEscaped ==
    call.op \in IdOps =>
        \A i \in 1..Len(wire) :
            wire[i].URL = baseURL \o EndpointWith(call.op, PathEscape(call.args.id))

\* The headers of a request besides the two default ones.
PerCallHeaders(r) == DOMAIN r.Header \ {"Authorization", "Content-Type"}

\* C23: the request Email.Send sends is POST /emails when params.ScheduledAt
\* is nil and POST /emails/schedule when it is set, whatever string it points
\* to; in both cases the body is the JSON of params and the Idempotency-Key
\* header is that of the options.
C23_SendEndpoint ==
    (call.op = "Email.Send" /\ wire # << >>) =>
        LET params == call.args.params
            options == call.args.options
            sent == wire[1]
        IN  /\ Len(wire) = 1
            /\ sent.Method = "POST"
            /\ sent.URL = baseURL \o (IF params.val.ScheduledAt.nil
                                      THEN "/emails" ELSE "/emails/schedule")
            /\ sent.hasBody
            /\ sent.Body = MarshalJSON(params).json
            /\ IF ~options.nil /\ options.val.IdempotencyKey # ""
               THEN /\ PerCallHeaders(sent) = {"Idempotency-Key"}
                    /\ sent.Header["Idempotency-Key"] = options.val.IdempotencyKey
               ELSE PerCallHeaders(sent) = {}

\* Email.Send, called with ScheduledAt pointing to the empty string and the
\* key "idem-1", has sent its request to /emails/schedule.
C23_Witness ==
    /\ pc = "inflight"
    /\ call.op = "Email.Send"
    /\ call.args.params.val.ScheduledAt = Ptr("")
    /\ call.args.options = Ptr([IdempotencyKey |-> "idem-1"])
    /\ req.Method = "POST"
    /\ req.URL = baseURL \o "/emails/schedule"
    /\ req.Header["Idempotency-Key"] = "idem-1"

\* C28: the requests of one SetupDomain call. The first is POST /domains; a
\* second one is POST /endpoints and is sent only after the domain creation
\* returned a success envelope and only for a webhook URL that is neither nil
\* nor empty; there is no third, and after a failed domain creation the call
\* has returned with one request sent.
C28_SetupDomainOrder ==
    call.op = "SetupDomain" =>
        /\ Len(wire) <= 2
        /\ Len(wire) >= 1 =>
              /\ wire[1].Method = "POST"
              /\ wire[1].URL = baseURL \o "/domains"
        /\ Len(wire) = 2 =>
              /\ wire[2].Method = "POST"
              /\ wire[2].URL = baseURL \o "/endpoints"
              /\ call.stage = 2
              /\ ~call.domainResult.Data.nil
              /\ call.domainResult.Error = ""
              /\ ~call.args.webhookURL.nil
              /\ call.args.webhookURL.val # ""
        /\ (call.stage = 1 /\ LastAnswerFailed) => pc = "returned" /\ Len(wire) = 1

\* SetupDomain with the webhook URL "https://hook.example.com" has sent POST
\* /endpoints after the domain creation was answered with a domain.
C28_Witness ==
    /\ call.op = "SetupDomain"
    /\ pc = "inflight"
    /\ call.args.webhookURL = Ptr("https://hook.example.com")
    /\ Len(wire) = 2
    /\ wire[1].URL = baseURL \o "/domains"
    /\ wire[2].URL = baseURL \o "/endpoints"
    /\ call.domainResult.Error = ""
    /\ req = wire[2]

\* What the running call shows when it is the operation that passes d to
\* makeRequest: the one request d leads to (or none), and after the return
\* the envelope makeRequest makes of the outcome.
BehavesAs(d) ==
    LET e == EnterMakeRequest(d, call.ctx)
    IN  /\ wire = (IF e.kind = "sent" THEN <<e.req>> ELSE << >>)
        /\ pc = "inflight" => e.kind = "sent" /\ req = e.req
        /\ pc = "panicked" => e.kind = "panic"
        /\ pc = "returned" =>
              ret = (IF e.kind = "sent" THEN makeRequest(d.T, outcome) ELSE e.ret)

\* C30: QuickReply(ctx, id, msg, from, opts) sends the request of
\* Email().Reply(ctx, id, {From: from, Text: msg}, opts) and returns its
\* envelope; ScheduleReminder(ctx, to, subject, when, from, opts) sends the
\* request of Email().Schedule(ctx, {From: from, To: to, Subject: subject,
\* Text: "Reminder: " + subject, ScheduledAt: when}, opts) and returns its
\* envelope; the options are passed through unchanged.
C30_WrappersAddNothing ==
    /\ call.op = "QuickReply" =>
          BehavesAs(EmailReply(call.args.id,
                               Ptr([type |-> "PostEmailReplyRequest",
                                    From |-> call.args.from, To |-> AnyNil,
                                    Text |-> Ptr(call.args.message)]),
                               call.args.options))
    /\ call.op = "ScheduleReminder" =>
          BehavesAs(EmailSchedule(Ptr([type |-> "PostScheduleEmailRequest",
                                       From |-> call.args.from,
                                       To |-> AnyString(call.args.to),
                                       Subject |-> call.args.subject,
                                       Text |-> Ptr("Reminder: " \o call.args.subject),
                                       ScheduledAt |-> call.args.when]),
                                  call.args.options))

\* QuickReply, called with the key "idem-1", has sent POST /emails/em_1/reply
\* with the body {"from": ..., "text": "thanks"} and the key as a header.
C30_Witness ==
    /\ pc = "inflight"
    /\ call.op = "QuickReply"
    /\ call.args.id = "em_1"
    /\ call.args.options = Ptr([IdempotencyKey |-> "idem-1"])
    /\ req.Method = "POST"
    /\ req.URL = baseURL \o "/emails/em_1/reply"
    /\ req.Body = "{\"from\":\"me@example.com\",\"text\":\"thanks\"}"
    /\ req.Header["Idempotency-Key"] = "idem-1"

-----------------------------------------------------------------------------
(* Properties of the response body stream (specification Spec) *)

\* C24, as claimed: whenever makeRequest has handled a response, its body
\* stream has been read to its end and closed, on every path: error status,
\* successful decode, decode failure and read failure.
C24_BodyConsumedAndClosed ==
    stream.exists => stream.eof /\ stream.closed

\* C24, amended: whenever makeRequest has handled a response, its body stream
\* has been closed; it has been read to its end on every path on which
\* reading succeeds (error status, successful decode, decode failure). When a
\* read fails, the stream is closed without having been read to its end, and
\* the envelope says "Failed to read response body".
C24_BodyClosedReadUnlessFailing ==
    stream.exists =>
        /\ stream.closed
        /\ stream.readable => stream.eof
        /\ ~stream.readable => ~stream.eof
        /\ (outcome # NoOutcome /\ ~stream.readable) =>
              mr.resp = ApiResponse(NilPtr, "Failed to read response body")

\* A call answered 200 with a body that is no JSON has returned "Failed to
\* parse response", and the body stream has been read to its end and closed.
C24_Witness ==
    /\ Answered
    /\ outcome.resp.StatusCode = 200
    /\ outcome.resp.Body = Doc("malformed")
    /\ mr.resp.Error = "Failed to parse response"
    /\ stream.exists
    /\ stream.eof
    /\ stream.closed

=============================================================================
